---- MODULE Spec2Model ----
(***************************************************************************)
(* The chain index of core/src/blockchain/blockchain.rs: ordered insertion *)
(* (insert_block), fork choice (block_info), tree_route, the staged        *)
(* overlays filled by prepare_update, the caller's batch write, commit,    *)
(* the read-through queries, cache eviction, insert_unordered_block, the   *)
(* receipts, the bloom index with blocks_with_bloom, logs, the epoch       *)
(* transitions, the interleaving of a read-through query with the writer,  *)
(* and the locks each operation takes.  ArchiveDB of                       *)
(* db/journaldb/src/archivedb.rs is modelled beside it.                    *)
(*                                                                         *)
(* An Option<T> is a set with at most one element: {} is None, {v} is      *)
(* Some(v).  A HashMap is a function; its key set is its DOMAIN.           *)
(***************************************************************************)
EXTENDS Integers, Sequences, FiniteSets, TLC

\* ------------------------------------------------------------- bounds
\* Blocks the environment may build on top of the genesis block.
MaxBlocks == 3
\* Header difficulties are 1 and MaxDiff.
MaxDiff == 3
\* Difficulty of the genesis header.
GenesisDifficulty == 1
\* Transaction hashes are 1..MaxTxs; a block holds the list TxList(k), k <= MaxTxs.
MaxTxs == 2
\* Queries and evictions the environment runs (they only move cache entries).
MaxReaderSteps == 1
\* Calls the caller makes once it has left the insert_block / write / commit cycle.
MaxOffSteps == 2
MaxEpoch == 1
MaxEpochCalls == 3
\* logs() is called with lists of up to two block numbers and limits up to MaxLimit.
MaxLimit == 3
\* ArchiveDB: the keys 1..MaxKeys, reference counts within -MaxRc..MaxRc, eras 0..MaxEra.
MaxKeys == 2
MaxRc == 2
MaxEra == 2

\* LOG_BLOOMS_LEVELS and LOG_BLOOMS_ELEMENTS_PER_INDEX of the bloom index.
LOG_BLOOMS_LEVELS == 3
LOG_BLOOMS_ELEMENTS_PER_INDEX == 16

\* H256::zero(), the parent of the genesis header.
ZeroHash == 0
\* The hash of the genesis block the store is opened with.
GenesisHash == ZeroHash + 1

BlockHashes == (GenesisHash + 1)..(GenesisHash + MaxBlocks)
AllHashes == {GenesisHash} \cup BlockHashes
Numbers == 0..MaxBlocks
Diffs == {1, MaxDiff}
Txs == 1..MaxTxs

\* <<k, k-1, .., 1>>: transaction 1 is at index 0 of TxList(1), index 1 of TxList(2).
TxList(k) == [i \in 1..k |-> k + 1 - i]
TxLists == {TxList(k) : k \in 0..MaxTxs}

\* The logs a transaction emits when executed: transaction 1 one log, every other
\* transaction t two.  A log is its identifier; a receipt is the list of its logs.
LogsOfTx(t) == IF t = 1 THEN <<1>> ELSE <<t, t + MaxTxs>>
LogIds == 1..(2 * MaxTxs)
\* The receipts of a verified block: one per transaction, in order.
ReceiptsOf(txs) == [i \in DOMAIN txs |-> LogsOfTx(txs[i])]
\* A bloom is the set of its bits; every log of transaction t sets bit t.
ZeroBloom == {}
BloomOfLog(l) == {((l - 1) % MaxTxs) + 1}
BloomOfReceipts(receipts) ==
    UNION {BloomOfLog(l) : l \in UNION {{r[j] : j \in DOMAIN r} : r \in
                                            {receipts[i] : i \in DOMAIN receipts}}}
Blooms == SUBSET Txs

\* ------------------------------------------------------------ helpers
EmptyMap == <<>>
Range(s) == {s[i] : i \in DOMAIN s}
Reverse(s) == [i \in 1..Len(s) |-> s[Len(s) + 1 - i]]
TheOne(opt) == CHOOSE v \in opt : TRUE
\* HashMap::extend / insert: entries of `upd` replace those of `m`.
Extend(m, upd) ==
    [k \in DOMAIN m \cup DOMAIN upd |-> IF k \in DOMAIN upd THEN upd[k] ELSE m[k]]
Without(m, keys) == [k \in DOMAIN m \ keys |-> m[k]]
Contains(s, x) == \E i \in DOMAIN s : s[i] = x
Max(a, b) == IF a >= b THEN a ELSE b
Min(a, b) == IF a <= b THEN a ELSE b
RECURSIVE Pow(_, _)
Pow(x, n) == IF n = 0 THEN 1 ELSE x * Pow(x, n - 1)
\* The numbers of `hs` in ascending order.
RECURSIVE Ascending(_)
Ascending(hs) ==
    IF hs = {} THEN <<>>
    ELSE <<CHOOSE h \in hs : \A g \in hs : h <= g>>
         \o Ascending(hs \ {CHOOSE h \in hs : \A g \in hs : h <= g})

VARIABLES
    made,                  \* environment: the blocks built so far, hash -> header/body
    db_blocks,             \* COL_HEADERS / COL_BODIES: hashes stored
    db_details,            \* COL_EXTRA: hash -> BlockDetails
    db_hashes,             \* COL_EXTRA: number -> hash
    db_txs,                \* COL_EXTRA: tx hash -> TransactionAddress
    db_best,               \* COL_EXTRA: "best"
    db_receipts,           \* COL_EXTRA: hash -> BlockReceipts
    db_blooms,             \* COL_EXTRA: group position -> BloomGroup
    db_first,              \* COL_EXTRA: "first"
    db_ancient,            \* COL_EXTRA: "ancient"
    db_epochs,             \* COL_EXTRA: epoch number -> EpochTransitions candidates
    best_block,            \* RwLock<BestBlock>
    best_ancient_block,    \* RwLock<Option<BestAncientBlock>>
    first_block,           \* Option<H256>, set by BlockChain::new only
    block_bodies,          \* cache: hashes whose header/body bytes are cached
    block_details,         \* cache: hash -> BlockDetails
    block_hashes,          \* cache: number -> hash
    transaction_addresses, \* cache: tx hash -> TransactionAddress
    block_receipts,        \* cache: hash -> BlockReceipts
    blocks_blooms,         \* cache: group position -> BloomGroup
    pending_best_block,    \* Option<BestBlock>
    pending_block_hashes,
    pending_block_details,
    pending_transaction_addresses, \* tx hash -> Option<TransactionAddress>
    batch,                 \* the caller's DBTransaction, not yet written
    batch_extra,           \* the same DBTransaction: its "ancient" and epoch operations
    passed,                \* epoch number -> the block hashes passed to insert_epoch_transition
    panicked,              \* an assertion or expect() has failed
    cycle,                 \* where the caller is in insert_block / write / commit
    last,                  \* the last insert_block call: block, placement, ImportRoute
    pre,                   \* what every query returned right before that call
    steps,                 \* queries and evictions run so far
    off_steps,             \* caller steps taken outside the cycle
    overlay,               \* ArchiveDB: the MemoryDB overlay, key -> reference count
    backing,               \* ArchiveDB: the keys of the column in the backing store
    backing_era,           \* ArchiveDB: LATEST_ERA_KEY in the backing store
    latest_era,            \* ArchiveDB: Option<u64>
    jdb_panicked,          \* ArchiveDB: an assertion of journal_under has failed
    journaled,             \* keys committed by commit_batch with a positive count
    purged,                \* keys committed by commit_batch with a negative count
    reading,               \* a read_with_cache in flight: the record it has loaded
    op,                    \* thread -> the operation it runs, or "idle"
    pc,                    \* thread -> the next step of its operation
    held,                  \* thread -> the locks it holds, in the order it took them
    queue                  \* lock -> the threads waiting for it, in the order they arrived

dbvars == <<db_blocks, db_details, db_hashes, db_txs, db_best, db_receipts, db_blooms,
            db_first, db_ancient, db_epochs>>
cachevars == <<block_bodies, block_details, block_hashes, transaction_addresses,
               block_receipts, blocks_blooms>>
pendingvars == <<pending_best_block, pending_block_hashes, pending_block_details,
                 pending_transaction_addresses>>
markvars == <<best_ancient_block, first_block>>
journalvars == <<batch_extra, passed>>
chainvars == <<made, dbvars, best_block, markvars, cachevars, pendingvars, batch,
               journalvars, panicked, cycle, last, pre, steps, off_steps>>
archivevars == <<overlay, backing, backing_era, latest_era, jdb_panicked, journaled, purged>>
racevars == <<reading>>
lockvars == <<op, pc, held, queue>>
auxvars == <<archivevars, racevars, lockvars>>
vars == <<chainvars, auxvars>>

\* ------------------------------------------------------------ queries
\* Readable::read_with_cache: the cached value if present, else the stored one.
read_with_cache(cache, db, key) ==
    IF key \in DOMAIN cache THEN {cache[key]}
    ELSE IF key \in DOMAIN db THEN {db[key]}
    ELSE {}

\* The cache after read_with_cache has run for every key of `keys`.
Populate(cache, db, keys) ==
    [k \in DOMAIN cache \cup (keys \cap DOMAIN db) |->
        IF k \in DOMAIN cache THEN cache[k] ELSE db[k]]

BlockDetailsOf(hash) == read_with_cache(block_details, db_details, hash)
BlockHashAt(index) == read_with_cache(block_hashes, db_hashes, index)
TransactionAddressOf(hash) == read_with_cache(transaction_addresses, db_txs, hash)

\* A faulty block_body: the best block's own bytes are not consulted.
BlockBodyUncached(hash) ==
    IF hash \in block_bodies \/ hash \in db_blocks
    THEN {made[hash].txs}
    ELSE {}

\* block_body: the cache, then the best block's own bytes, then the store.
BlockBodyOf(hash) ==
    IF hash \in block_bodies \/ best_block.hash = hash \/ hash \in db_blocks
    THEN {made[hash].txs}
    ELSE {}
\* The hashes block_body loads from the store into the cache.
BodyLoads(hs) == {h \in hs : h \notin block_bodies /\ best_block.hash # h /\ h \in db_blocks}

BlockNumberOf(hash) == {d.number : d \in BlockDetailsOf(hash)}

\* block_receipts(hash).
BlockReceiptsOf(hash) == read_with_cache(block_receipts, db_receipts, hash)

\* BloomGroupDatabase::blooms_at(position).
BloomsAt(position) == read_with_cache(blocks_blooms, db_blooms, position)

IsKnownChild(parent, hash) ==
    \E d \in BlockDetailsOf(parent) : Contains(d.children, hash)

\* --------------------------------------------------------- tree_route
\* `while det.number > n { branch.push(cur); cur = det.parent; det = details(cur)? }`
\* gives [ok, cur, det, branch, seen]; ok is FALSE where `?` returns None, seen are the
\* blocks whose details the walk has read.
RECURSIVE LevelWalk(_, _, _)
PushWalk(cur, r) == [r EXCEPT !.branch = <<cur>> \o @, !.seen = @ \cup {cur}]
\* A faulty walk: a parent without details ends the walk as if the level were reached.
LevelStepPartial(cur, det, n, pd) ==
    IF pd = {}
    THEN [ok |-> TRUE, cur |-> cur, det |-> det, branch |-> <<>>, seen |-> {cur}]
    ELSE PushWalk(cur, LevelWalk(det.parent, TheOne(pd), n))

LevelStep(cur, det, n, pd) ==
    IF pd = {}
    THEN [ok |-> FALSE, cur |-> cur, det |-> det, branch |-> <<>>, seen |-> {cur}]
    ELSE PushWalk(cur, LevelWalk(det.parent, TheOne(pd), n))
LevelWalk(cur, det, n) ==
    IF det.number > n THEN LevelStep(cur, det, n, BlockDetailsOf(det.parent))
    ELSE [ok |-> TRUE, cur |-> cur, det |-> det, branch |-> <<>>, seen |-> {cur}]

NoShared ==
    [ok |-> FALSE, ancestor |-> ZeroHash, from_branch |-> <<>>, to_branch |-> <<>>,
     seen |-> {}]

\* `while current_from != current_to { ... }`: both sides step to their parents.
RECURSIVE SharedWalk(_, _, _, _)
PushShared(cf, ct, r) ==
    [r EXCEPT !.from_branch = <<cf>> \o @, !.to_branch = <<ct>> \o @,
              !.seen = @ \cup {cf, ct}]
SharedStep(cf, fd, ct, td, pf, pt) ==
    IF pf = {} THEN [NoShared EXCEPT !.seen = {cf, ct}]
    ELSE IF pt = {} THEN [NoShared EXCEPT !.seen = {cf, ct, fd.parent}]
    ELSE PushShared(cf, ct, SharedWalk(fd.parent, TheOne(pf), td.parent, TheOne(pt)))
SharedWalk(cf, fd, ct, td) ==
    IF cf # ct
    THEN SharedStep(cf, fd, ct, td, BlockDetailsOf(fd.parent), BlockDetailsOf(td.parent))
    ELSE [ok |-> TRUE, ancestor |-> cf, from_branch |-> <<>>, to_branch |-> <<>>,
          seen |-> {cf}]

\* None, with the details read before `?` returned; panic is the failure of
\* `assert_eq!(from_details.number, to_details.number)`.
NoRoute ==
    [ok |-> FALSE, blocks |-> <<>>, ancestor |-> ZeroHash, index |-> 0, seen |-> {},
     panic |-> FALSE]
NoRouteSeen(seen) == [NoRoute EXCEPT !.seen = seen]
RouteAssertFails == [NoRoute EXCEPT !.panic = TRUE]

\* A faulty route: the `to` side appended without reversing it.
MakeRouteUnreversed(from_branch, to_branch, ancestor) ==
    [ok |-> TRUE, blocks |-> from_branch \o to_branch, ancestor |-> ancestor,
     index |-> Len(from_branch),
     seen |-> Range(from_branch) \cup Range(to_branch) \cup {ancestor}, panic |-> FALSE]

\* `index = from_branch.len(); from_branch.extend(to_branch.into_iter().rev())`
MakeRoute(from_branch, to_branch, ancestor) ==
    [ok |-> TRUE, blocks |-> from_branch \o Reverse(to_branch), ancestor |-> ancestor,
     index |-> Len(from_branch),
     seen |-> Range(from_branch) \cup Range(to_branch) \cup {ancestor}, panic |-> FALSE]

TreeRouteShared(f, t, s) ==
    IF ~s.ok THEN NoRouteSeen(f.seen \cup t.seen \cup s.seen)
    ELSE MakeRoute(f.branch \o s.from_branch, t.branch \o s.to_branch, s.ancestor)
TreeRouteTo(f, t) ==
    IF ~t.ok THEN NoRouteSeen(f.seen \cup t.seen)
    ELSE IF f.det.number # t.det.number THEN RouteAssertFails
    ELSE TreeRouteShared(f, t, SharedWalk(f.cur, f.det, t.cur, t.det))
TreeRouteFrom(to, td, f) ==
    IF ~f.ok THEN NoRouteSeen(f.seen \cup {to})
    ELSE TreeRouteTo(f, LevelWalk(to, td, f.det.number))
TreeRouteDetails(from, to, fd0, td0) ==
    IF fd0 = {} THEN NoRoute
    ELSE IF td0 = {} THEN NoRouteSeen({from})
    ELSE TreeRouteFrom(to, TheOne(td0),
                       LevelWalk(from, TheOne(fd0), TheOne(td0).number))

\* tree_route(from, to): [ok, blocks, ancestor, index, seen, panic]; ok is FALSE for
\* None.
TreeRoute(from, to) ==
    TreeRouteDetails(from, to, BlockDetailsOf(from), BlockDetailsOf(to))

\* The details records a successful tree_route has read: both ends, every block of
\* the route and the common ancestor.
RouteReads(from, to, route) == {from, to, route.ancestor} \cup Range(route.blocks)

\* -------------------------------------------------------- insert_block
BranchLoc == "Branch"
CanonChainLoc == "CanonChain"
BecomingCanonLoc == "BranchBecomingCanonChain"

NoInfo ==
    [ok |-> FALSE, hash |-> ZeroHash, number |-> 0, total_difficulty |-> 0,
     location |-> BranchLoc, ancestor |-> ZeroHash, enacted |-> <<>>, retracted |-> <<>>,
     reads |-> {}]

\* BlockInfo, with `reads`: the details records block_info has read.
InfoOf(b, td, location, ancestor, enacted, retracted, reads) ==
    [ok |-> TRUE, hash |-> b.hash, number |-> b.number, total_difficulty |-> td,
     location |-> location, ancestor |-> ancestor, enacted |-> enacted,
     retracted |-> retracted, reads |-> reads]

\* is_new_best of block_info: strictly greater than the live best block's.
\* Faulty fork choices: the comparison inverted, and a tie taken as a new best block.
InvertedIsNewBest(total_difficulty) == total_difficulty < best_block.total_difficulty
TieIsNewBest(total_difficulty) == total_difficulty >= best_block.total_difficulty

IsNewBest(total_difficulty) == total_difficulty > best_block.total_difficulty

\* A faulty split of the route: the enacted part taken without skipping `index` blocks.
RouteEnactedUnskipped(route) == route.blocks

\* `route.blocks.iter().take(route.index)` and `.skip(route.index)`.
RouteRetracted(route) == SubSeq(route.blocks, 1, route.index)
RouteEnacted(route) == SubSeq(route.blocks, route.index + 1, Len(route.blocks))

\* `match route.blocks.len()`: 0 is CanonChain, otherwise BranchBecomingCanonChain.
RouteLocation(b, td, route) ==
    IF Len(route.blocks) = 0
    THEN InfoOf(b, td, CanonChainLoc, ZeroHash, <<>>, <<>>,
                RouteReads(best_block.hash, b.parent, route))
    ELSE InfoOf(b, td, BecomingCanonLoc, route.ancestor, RouteEnacted(route),
                RouteRetracted(route), RouteReads(best_block.hash, b.parent, route))

\* The expect() on the route and `assert_eq!(number, parent_details.number + 1)`.
BlockInfoRoute(b, parent_details, td, route) ==
    IF ~route.ok \/ b.number # parent_details.number + 1 THEN NoInfo
    ELSE RouteLocation(b, td, route)

BlockInfoParent(b, parent_details, td) ==
    IF IsNewBest(td)
    THEN BlockInfoRoute(b, parent_details, td, TreeRoute(best_block.hash, b.parent))
    ELSE InfoOf(b, td, BranchLoc, ZeroHash, <<>>, <<>>, {b.parent})

BlockInfoDetails(b, pd) ==
    IF pd = {} THEN NoInfo
    ELSE BlockInfoParent(b, TheOne(pd), TheOne(pd).total_difficulty + b.difficulty)

\* block_info: number, hash, total difficulty and placement of block `b`; ok is FALSE
\* where the code panics.
BlockInfo(b) == BlockInfoDetails(b, BlockDetailsOf(b.parent))

\* `block_hashes.insert(start_number + index, hash)` over data.enacted.
\* A faulty numbering of the enacted blocks, starting at the ancestor's own number.
EnactedHashesFromAncestor(start_number, enacted) ==
    [n \in {start_number + i - 2 : i \in DOMAIN enacted} |-> enacted[n - start_number + 2]]

EnactedHashes(start_number, enacted) ==
    [n \in {start_number + i - 1 : i \in DOMAIN enacted} |-> enacted[n - start_number + 1]]

ReorgHashes(b, info, ancestor_number) ==
    IF ancestor_number = {} THEN [ok |-> FALSE, map |-> EmptyMap]
    ELSE [ok |-> TRUE,
          map |-> Extend(EnactedHashes(TheOne(ancestor_number) + 1, info.enacted),
                         [n \in {b.number} |-> info.hash])]

\* A faulty update: a Branch block takes its number like a CanonChain block.
PrepareBlockHashesUpdateOnBranch(b, info) ==
    IF info.location \in {BranchLoc, CanonChainLoc}
    THEN [ok |-> TRUE, map |-> [n \in {b.number} |-> info.hash]]
    ELSE ReorgHashes(b, info, BlockNumberOf(info.ancestor))

\* prepare_block_hashes_update: the number -> hash entries to (over)write.
PrepareBlockHashesUpdate(b, info) ==
    IF info.location = BranchLoc THEN [ok |-> TRUE, map |-> EmptyMap]
    ELSE IF info.location = CanonChainLoc
    THEN [ok |-> TRUE, map |-> [n \in {b.number} |-> info.hash]]
    ELSE ReorgHashes(b, info, BlockNumberOf(info.ancestor))

\* Faulty details: the header's own difficulty kept as the total difficulty.
NewDetailsOwnDifficulty(b, info) ==
    [number |-> b.number, total_difficulty |-> b.difficulty,
     parent |-> b.parent, children |-> <<>>]

NewDetails(b, info) ==
    [number |-> b.number, total_difficulty |-> info.total_difficulty,
     parent |-> b.parent, children |-> <<>>]

\* A faulty push: the new child replaces the children recorded before.
PushChildAlone(parent_details, hash) == [parent_details EXCEPT !.children = <<hash>>]

\* `parent_details.children.push(info.hash)`
PushChild(parent_details, hash) == [parent_details EXCEPT !.children = Append(@, hash)]

\* prepare_block_details_update: the parent with the new child pushed, and the block.
PrepareBlockDetailsUpdate(b, info) ==
    Extend([h \in {b.parent} |-> PushChild(TheOne(BlockDetailsOf(b.parent)), info.hash)],
           [h \in {info.hash} |-> NewDetails(b, info)])

\* The index a transaction hash keeps when the pairs of one block are collected into
\* a HashMap: of two equal hashes the later position stays.
LastIndex(txs, t) ==
    (CHOOSE i \in DOMAIN txs : txs[i] = t /\ \A j \in DOMAIN txs : txs[j] = t => j <= i) - 1

\* A faulty address: the index counted from one.
AddressesOneBased(hash, txs) ==
    [t \in Range(txs) |-> {[block_hash |-> hash, index |-> LastIndex(txs, t) + 1]}]

\* (tx_hash, Some(TransactionAddress { block_hash, index })) for one block.
AddressesOf(hash, txs) ==
    [t \in Range(txs) |-> {[block_hash |-> hash, index |-> LastIndex(txs, t)]}]

RECURSIVE EnactedAddresses(_)
EnactedAddresses(hashes) ==
    IF hashes = <<>> THEN EmptyMap
    ELSE Extend(AddressesOf(Head(hashes), made[Head(hashes)].txs),
                EnactedAddresses(Tail(hashes)))

RetractedAddresses(hashes) ==
    [t \in UNION {Range(made[hashes[i]].txs) : i \in DOMAIN hashes} |-> {}]

\* A faulty order: the removals of the retracted blocks applied last.
ChainRetractedLast(retracted, addresses, current_addresses) ==
    Extend(Extend(addresses, current_addresses), retracted)

\* `retracted.chain(addresses).chain(current_addresses).collect()`: later pairs win.
ChainAddresses(retracted, addresses, current_addresses) ==
    Extend(Extend(retracted, addresses), current_addresses)

\* prepare_transaction_addresses_update: tx hash -> Some(address) or None (a removal);
\* ok is FALSE where the body of an enacted or retracted block is not found.
PrepareTransactionAddressesUpdate(b, info) ==
    IF info.location = CanonChainLoc
    THEN [ok |-> TRUE, map |-> AddressesOf(info.hash, b.txs)]
    ELSE IF info.location = BranchLoc THEN [ok |-> TRUE, map |-> EmptyMap]
    ELSE IF \E h \in Range(info.enacted) \cup Range(info.retracted) : BlockBodyOf(h) = {}
    THEN [ok |-> FALSE, map |-> EmptyMap]
    ELSE [ok |-> TRUE,
          map |-> ChainAddresses(RetractedAddresses(info.retracted),
                                 EnactedAddresses(info.enacted),
                                 AddressesOf(info.hash, b.txs))]

\* --------------------------------------------------------- bloom index
\* The hierarchical bloom index (bloomchain): level 0 holds the blocks' own blooms,
\* a slot of a higher level the union of one whole group of the level below.
Levels == 0..(LOG_BLOOMS_LEVELS - 1)
Slots == 0..(LOG_BLOOMS_ELEMENTS_PER_INDEX - 1)

\* The group that covers block `number` at `level`, and the block's slot in it.
GroupPosition(level, number) ==
    [level |-> level, index |-> number \div Pow(LOG_BLOOMS_ELEMENTS_PER_INDEX, level + 1)]
SlotOf(level, number) ==
    (number \div Pow(LOG_BLOOMS_ELEMENTS_PER_INDEX, level)) % LOG_BLOOMS_ELEMENTS_PER_INDEX

NewGroup == [i \in Slots |-> ZeroBloom]
GroupOrNew(opt) == IF opt = {} THEN NewGroup ELSE TheOne(opt)
GroupOr(group) == UNION {group[i] : i \in Slots}
\* BloomGroup::accrue_bloom_group.
AccrueBloomGroup(group, other) == [i \in Slots |-> group[i] \cup other[i]]

AccrueSlot(group, slot, bloom) == [group EXCEPT ![slot] = @ \cup bloom]

\* BloomGroupChain::insert(number, bloom): the bloom is accrued into the block's slot
\* at every level.
ChainInsert(number, bloom) ==
    [pos \in {GroupPosition(l, number) : l \in Levels} |->
        AccrueSlot(GroupOrNew(BloomsAt(pos)), SlotOf(pos.level, number), bloom)]

\* BloomGroupChain::replace(start..end, blooms): the blocks from `start` take the
\* given blooms, the rest of the range is reset, and the upper levels are recomputed
\* from the groups below.
ReplacedNumbers(start, end, blooms) == start..Max(end, start + Len(blooms) - 1)
ReplacedBloom(start, blooms, n) ==
    IF n - start + 1 <= Len(blooms) THEN blooms[n - start + 1] ELSE ZeroBloom
ReplacedLevel0(start, blooms, numbers) ==
    [pos \in {GroupPosition(0, n) : n \in numbers} |->
        [i \in Slots |->
            IF pos.index * LOG_BLOOMS_ELEMENTS_PER_INDEX + i \in numbers
            THEN ReplacedBloom(start, blooms, pos.index * LOG_BLOOMS_ELEMENTS_PER_INDEX + i)
            ELSE GroupOrNew(BloomsAt(pos))[i]]]
ReplacedUpper(level, lower, numbers) ==
    [pos \in {GroupPosition(level, n) : n \in numbers} |->
        [i \in Slots |->
            IF [level |-> level - 1, index |-> pos.index * LOG_BLOOMS_ELEMENTS_PER_INDEX + i]
                   \in DOMAIN lower
            THEN GroupOr(lower[[level |-> level - 1,
                                index |-> pos.index * LOG_BLOOMS_ELEMENTS_PER_INDEX + i]])
            ELSE GroupOrNew(BloomsAt(pos))[i]]]
RECURSIVE ReplacedLevels(_, _, _)
ReplacedAbove(level, this, numbers) ==
    Extend(this, ReplacedLevels(level + 1, this, numbers))
ReplacedLevels(level, lower, numbers) ==
    IF level \notin Levels THEN EmptyMap
    ELSE ReplacedAbove(level, ReplacedUpper(level, lower, numbers), numbers)
ReplacedFrom(level0, numbers) == Extend(level0, ReplacedLevels(1, level0, numbers))
ChainReplace(start, end, blooms) ==
    ReplacedFrom(ReplacedLevel0(start, blooms, ReplacedNumbers(start, end, blooms)),
                 ReplacedNumbers(start, end, blooms))

\* BloomGroupChain::with_bloom(from..to, bloom): the numbers of the range whose slot
\* holds every bit of the bloom at every level; a group that was never written
\* matches nothing.
LevelMatches(level, n, bloom) ==
    \E g \in BloomsAt(GroupPosition(level, n)) : bloom \subseteq g[SlotOf(level, n)]
WithBloom(from_block, to_block, bloom) ==
    Ascending({n \in from_block..to_block : \A l \in Levels : LevelMatches(l, n, bloom)})
\* The groups with_bloom reads: top down, as long as the level above has matched.
WithBloomReads(from_block, to_block, bloom) ==
    UNION {{GroupPosition(l, n) :
                n \in {m \in from_block..to_block :
                          \A k \in Levels : k > l => LevelMatches(k, m, bloom)}} :
           l \in Levels}

\* blocks_with_bloom(bloom, from_block, to_block).
BlocksWithBloom(bloom, from_block, to_block) == WithBloom(from_block, to_block, bloom)

\* A faulty range: the replaced numbers end at the new block's number instead of the
\* live best block's.
ReorgBloomsToNewBlock(b, info, ancestor_number) ==
    IF ancestor_number = {} \/ \E h \in Range(info.enacted) : BlockBodyOf(h) = {}
    THEN [ok |-> FALSE, map |-> EmptyMap]
    ELSE [ok |-> TRUE,
          map |-> ChainReplace(TheOne(ancestor_number) + 1, b.number,
                               [i \in DOMAIN info.enacted |-> made[info.enacted[i]].log_bloom]
                                   \o <<b.log_bloom>>)]

\* `range = ancestor_number + 1 .. self.best_block_number()`, the blooms of the
\* enacted headers and of the block itself.
ReorgBlooms(b, info, ancestor_number) ==
    IF ancestor_number = {} \/ \E h \in Range(info.enacted) : BlockBodyOf(h) = {}
    THEN [ok |-> FALSE, map |-> EmptyMap]
    ELSE [ok |-> TRUE,
          map |-> ChainReplace(TheOne(ancestor_number) + 1, best_block.number,
                               [i \in DOMAIN info.enacted |-> made[info.enacted[i]].log_bloom]
                                   \o <<b.log_bloom>>)]

\* prepare_block_blooms_update: group position -> BloomGroup; ok is FALSE where the
\* ancestor's number or the header of an enacted block is not found.
PrepareBlockBloomsUpdate(b, info) ==
    IF info.location = BranchLoc THEN [ok |-> TRUE, map |-> EmptyMap]
    ELSE IF info.location = CanonChainLoc
    THEN [ok |-> TRUE,
          map |-> IF b.log_bloom = ZeroBloom THEN EmptyMap
                  ELSE ChainInsert(info.number, b.log_bloom)]
    ELSE ReorgBlooms(b, info, BlockNumberOf(info.ancestor))

\* The groups prepare_update writes to the batch: on CanonChain a cached group
\* accrues the update first.
BloomsWritten(location, update) ==
    IF location = CanonChainLoc
    THEN [pos \in DOMAIN update |->
             IF pos \in DOMAIN Populate(blocks_blooms, db_blooms, DOMAIN update)
             THEN AccrueBloomGroup(TheOne(BloomsAt(pos)), update[pos])
             ELSE update[pos]]
    ELSE update
\* The bloom cache after prepare_update: replaced as a whole on a reorganisation.
BloomCacheAfter(location, written) ==
    IF location = BecomingCanonLoc THEN written ELSE Extend(blocks_blooms, written)

\* A faulty update: the last receipt is dropped.
PrepareBlockReceiptsUpdateTruncated(b, info) ==
    [h \in {info.hash} |-> SubSeq(b.receipts, 1, Len(b.receipts) - 1)]

\* prepare_block_receipts_update: the receipts as they were passed.
PrepareBlockReceiptsUpdate(b, info) == [h \in {info.hash} |-> b.receipts]

ImportRouteNone == [enacted |-> <<>>, retracted |-> <<>>, omitted |-> <<>>]

\* ImportRoute::from(BlockInfo).
ImportRouteFrom(info) ==
    IF info.location = CanonChainLoc
    THEN [enacted |-> <<info.hash>>, retracted |-> <<>>, omitted |-> <<>>]
    ELSE IF info.location = BecomingCanonLoc
    THEN [enacted |-> Append(info.enacted, info.hash), retracted |-> info.retracted,
          omitted |-> <<>>]
    ELSE ImportRouteNone

EmptyBatch ==
    [blocks |-> {}, details |-> EmptyMap, hashes |-> EmptyMap, txs |-> EmptyMap,
     best |-> {}, receipts |-> EmptyMap, blooms |-> EmptyMap]

\* No operation on "ancient" ({{}} is its delete, {{h}} its put) and no epoch record.
EmptyExtra == [ancient |-> {}, epochs |-> EmptyMap]

\* What every query returns in the current state.
LiveView ==
    [best |-> best_block,
     hashes |-> [n \in Numbers |-> BlockHashAt(n)],
     details |-> [h \in AllHashes |-> BlockDetailsOf(h)],
     txs |-> [t \in Txs |-> TransactionAddressOf(t)],
     receipts |-> [h \in AllHashes |-> BlockReceiptsOf(h)],
     blooms |-> [q \in Blooms |-> BlocksWithBloom(q, 0, MaxBlocks)],
     first |-> first_block,
     ancient |-> best_ancient_block]

\* A faulty condition: a Branch block is staged as the best block as well.
StagesBestOnBranch(is_best, location) == is_best

\* `is_best && update.info.location != BlockLocation::Branch` of prepare_update.
StagesBest(is_best, location) == is_best /\ location # BranchLoc

\* --------------------------------------------------------------- Init
GenesisBlock ==
    [hash |-> GenesisHash, parent |-> ZeroHash, number |-> 0,
     difficulty |-> GenesisDifficulty, txs |-> <<>>, receipts |-> <<>>,
     log_bloom |-> ZeroBloom]

GenesisDetails ==
    [number |-> 0, total_difficulty |-> GenesisDifficulty, parent |-> ZeroHash,
     children |-> <<>>]

\* The record kept of an insert_block call; insert_unordered_block records its flags.
CallRecord(b, outcome, location, total_difficulty, route) ==
    [block |-> b, outcome |-> outcome, location |-> location,
     total_difficulty |-> total_difficulty, route |-> route,
     is_best |-> TRUE, is_ancient |-> FALSE]

\* BlockChain::new on an empty store: the genesis records are written, then its header,
\* body and details are read back through the caches while the best block is loaded,
\* and block_hash(0) is read for the first-block check, which finds the genesis block.
\* ArchiveDB::new on an empty backing store.
ArchiveInit ==
    /\ overlay = EmptyMap
    /\ backing = {}
    /\ backing_era = {}
    /\ latest_era = {}
    /\ jdb_panicked = FALSE
    /\ journaled = {}
    /\ purged = {}

Threads == {"writer", "collector", "info", "reader"}

\* No thread runs an operation and none holds a lock.
LockInit ==
    /\ op = [t \in Threads |-> "idle"]
    /\ pc = [t \in Threads |-> 1]
    /\ held = [t \in Threads |-> <<>>]
    /\ queue = EmptyMap

AuxInit == ArchiveInit /\ reading = {} /\ LockInit

InitStore ==
    /\ db_blocks = {GenesisHash}
    /\ db_details = [h \in {GenesisHash} |-> GenesisDetails]
    /\ db_hashes = [n \in {0} |-> GenesisHash]
    /\ db_txs = EmptyMap
    /\ db_best = {GenesisHash}
    /\ db_receipts = EmptyMap
    /\ db_blooms = EmptyMap
    /\ db_first = {}
    /\ db_ancient = {}
    /\ db_epochs = EmptyMap
    /\ best_ancient_block = {}
    /\ first_block = {}
    /\ batch_extra = EmptyExtra
    /\ passed = EmptyMap
    /\ best_block = [hash |-> GenesisHash, number |-> 0,
                     total_difficulty |-> GenesisDifficulty]
    /\ block_bodies = {GenesisHash}
    /\ block_details = [h \in {GenesisHash} |-> GenesisDetails]
    /\ block_hashes = [n \in {0} |-> GenesisHash]
    /\ transaction_addresses = EmptyMap
    /\ block_receipts = EmptyMap
    /\ blocks_blooms = EmptyMap
    /\ pending_best_block = {}
    /\ pending_block_hashes = EmptyMap
    /\ pending_block_details = EmptyMap
    /\ pending_transaction_addresses = EmptyMap
    /\ batch = EmptyBatch
    /\ panicked = FALSE
    /\ cycle = "idle"
    /\ last = CallRecord(GenesisBlock, "none", BranchLoc, 0, ImportRouteNone)
    /\ pre = [best |-> best_block,
              hashes |-> [n \in Numbers |-> IF n = 0 THEN {GenesisHash} ELSE {}],
              details |-> [h \in AllHashes |->
                              IF h = GenesisHash THEN {GenesisDetails} ELSE {}],
              txs |-> [t \in Txs |-> {}],
              receipts |-> [h \in AllHashes |-> {}],
              blooms |-> [q \in Blooms |-> <<>>],
              first |-> {},
              ancient |-> {}]
    /\ steps = 0
    /\ off_steps = 0
    /\ AuxInit

Init ==
    /\ made = [h \in {GenesisHash} |-> GenesisBlock]
    /\ InitStore

\* ------------------------------------------------------------ actions
\* The documented cycle is insert_block, db.write(batch), commit.  A caller step that
\* leaves it (a second insert_block before commit, commit before the write, ...) turns
\* `cycle` to "off" for good; such steps are counted and capped.  Readers and
\* evictions run beside a caller that keeps the cycle; a caller that leaves it runs
\* alone.
CycleStep(next) ==
    /\ cycle' = next
    /\ IF next = "off"
       THEN steps = 0 /\ off_steps < MaxOffSteps /\ off_steps' = off_steps + 1
       ELSE off_steps' = off_steps

ReaderStep ==
    /\ ~panicked
    /\ cycle # "off"
    /\ steps < MaxReaderSteps
    /\ steps' = steps + 1

\* An assertion or expect() fails: the call does not return.
Panic(reason) ==
    /\ panicked' = TRUE
    /\ last' = [last EXCEPT !.outcome = reason]
    /\ UNCHANGED <<markvars, journalvars,
                   dbvars, best_block, cachevars, pendingvars, batch, cycle,
                   pre, steps, off_steps>>

\* A faulty best block: the number of the live best block is kept.
StagedBestNumberKept(info) ==
    [hash |-> info.hash, number |-> best_block.number,
     total_difficulty |-> info.total_difficulty]

\* The BestBlock prepare_update stages for the block.
StagedBest(info) ==
    [hash |-> info.hash, number |-> info.number,
     total_difficulty |-> info.total_difficulty]

\* prepare_update: the staged overlays and the batch take the block's updates.
PrepareUpdate(info, hashes_update, details_update, receipts_update, blooms_written, txs_update, is_best) ==
    /\ block_receipts' = Without(block_receipts, DOMAIN receipts_update)
    /\ blocks_blooms' = BloomCacheAfter(info.location, blooms_written)
    /\ pending_best_block' =
           IF StagesBest(is_best, info.location) THEN {StagedBest(info)}
           ELSE pending_best_block
    /\ pending_block_details' = Extend(pending_block_details, details_update)
    /\ pending_block_hashes' = Extend(pending_block_hashes, hashes_update)
    /\ pending_transaction_addresses' = Extend(pending_transaction_addresses, txs_update)
    /\ batch' = [blocks |-> batch.blocks \cup {info.hash},
                 details |-> Extend(batch.details, details_update),
                 hashes |-> Extend(batch.hashes, hashes_update),
                 txs |-> Extend(batch.txs, txs_update),
                 best |-> IF StagesBest(is_best, info.location)
                          THEN {info.hash} ELSE batch.best,
                 receipts |-> Extend(batch.receipts, receipts_update),
                 blooms |-> Extend(batch.blooms, blooms_written)]

\* A faulty early return: the header and body are put into the batch first.
KnownReturnAfterPut(b) ==
    /\ block_details' = Populate(block_details, db_details, {b.parent})
    /\ last' = CallRecord(b, "known", BranchLoc, 0, ImportRouteNone)
    /\ batch' = [batch EXCEPT !.blocks = @ \cup {b.hash}]
    /\ UNCHANGED <<markvars, journalvars, dbvars, best_block, block_bodies, block_hashes,
                   transaction_addresses, block_receipts, blocks_blooms, pendingvars,
                   panicked, cycle, pre, steps, off_steps>>

\* `return ImportRoute::none()` for a known child of its parent.
KnownReturn(b) ==
    /\ block_details' = Populate(block_details, db_details, {b.parent})
    /\ last' = CallRecord(b, "known", BranchLoc, 0, ImportRouteNone)
    /\ UNCHANGED <<markvars, journalvars, dbvars, best_block, block_bodies, block_hashes,
                   transaction_addresses, block_receipts, blocks_blooms, pendingvars,
                   batch, panicked, cycle, pre, steps, off_steps>>

\* The rest of insert_block once the updates are prepared.
InsertUpdates(b, info, hashes_update, details_update, receipts_update, blooms_update, txs_update) ==
    IF ~hashes_update.ok \/ ~blooms_update.ok \/ ~txs_update.ok
    THEN Panic("expect_prepare")
    ELSE /\ PrepareUpdate(info, hashes_update.map, details_update, receipts_update,
                          BloomsWritten(info.location, blooms_update.map),
                          txs_update.map, TRUE)
         /\ block_details' = Populate(block_details, db_details, info.reads)
         /\ block_bodies' =
                block_bodies \cup BodyLoads(Range(info.enacted) \cup Range(info.retracted))
         /\ last' = CallRecord(b, "staged", info.location, info.total_difficulty,
                               ImportRouteFrom(info))
         /\ pre' = LiveView
         /\ CycleStep(IF cycle = "idle" THEN "staged" ELSE "off")
         /\ UNCHANGED <<markvars, journalvars,
                        dbvars, best_block, block_hashes, transaction_addresses,
                        panicked, steps>>

InsertInfo(b, info) ==
    IF ~info.ok THEN Panic("expect_block_info")
    ELSE InsertUpdates(b, info, PrepareBlockHashesUpdate(b, info),
                       PrepareBlockDetailsUpdate(b, info),
                       PrepareBlockReceiptsUpdate(b, info),
                       PrepareBlockBloomsUpdate(b, info),
                       PrepareTransactionAddressesUpdate(b, info))

\* insert_block(batch, bytes, receipts) for the block `b`.
InsertBlockCall(b) ==
    IF IsKnownChild(b.parent, b.hash) THEN KnownReturn(b)
    ELSE IF pending_best_block # {} THEN Panic("assert_pending_best_block")
    ELSE InsertInfo(b, BlockInfo(b))

\* Transaction hashes of the ancestors of (and including) block h.
RECURSIVE AncestorTxs(_)
AncestorTxs(h) ==
    IF h \notin DOMAIN made THEN {}
    ELSE Range(made[h].txs) \cup AncestorTxs(made[h].parent)

\* The sum of the header difficulties from block h down to the genesis block.
RECURSIVE TrueTotalDifficulty(_)
TrueTotalDifficulty(h) ==
    IF h \notin DOMAIN made THEN 0
    ELSE made[h].difficulty + TrueTotalDifficulty(made[h].parent)

InsertMade(b) ==
    /\ made' = Extend(made, [h \in {b.hash} |-> b])
    /\ InsertBlockCall(b)

\* The caller inserts a block it has built on some block built before: a verified
\* block, numbered parent + 1, holding no transaction of its own ancestors.
InsertNewBlock ==
    /\ UNCHANGED auxvars
    /\ ~panicked
    /\ \E hash \in BlockHashes, parent \in DOMAIN made, d \in Diffs, txs \in TxLists :
         /\ hash \notin DOMAIN made
         /\ \A h \in BlockHashes : h < hash => h \in DOMAIN made
         /\ Range(txs) \cap AncestorTxs(parent) = {}
         /\ InsertMade([hash |-> hash, parent |-> parent,
                        number |-> made[parent].number + 1,
                        difficulty |-> d, txs |-> txs, receipts |-> ReceiptsOf(txs),
                        log_bloom |-> BloomOfReceipts(ReceiptsOf(txs))])

\* The caller inserts again a block it has inserted before.
InsertBlockAgain ==
    /\ UNCHANGED auxvars
    /\ ~panicked
    /\ \E hash \in DOMAIN made \ {GenesisHash} : InsertMade(made[hash])

\* The store's transaction addresses after the batch's puts and deletes.
WriteTxs(stored, ops) ==
    Extend(Without(stored, DOMAIN ops),
           [t \in {k \in DOMAIN ops : ops[k] # {}} |-> TheOne(ops[t])])

\* The caller writes the batch to the store (db.write(batch)).
WriteBatch ==
    /\ UNCHANGED auxvars
    /\ ~panicked
    /\ batch # EmptyBatch \/ batch_extra # EmptyExtra
    /\ db_blocks' = db_blocks \cup batch.blocks
    /\ db_details' = Extend(db_details, batch.details)
    /\ db_hashes' = Extend(db_hashes, batch.hashes)
    /\ db_txs' = WriteTxs(db_txs, batch.txs)
    /\ db_best' = IF batch.best = {} THEN db_best ELSE batch.best
    /\ db_receipts' = Extend(db_receipts, batch.receipts)
    /\ db_blooms' = Extend(db_blooms, batch.blooms)
    /\ db_ancient' = IF batch_extra.ancient = {} THEN db_ancient
                     ELSE TheOne(batch_extra.ancient)
    /\ db_epochs' = Extend(db_epochs, batch_extra.epochs)
    /\ batch' = EmptyBatch
    /\ batch_extra' = EmptyExtra
    /\ CycleStep(IF cycle = "staged" THEN "written" ELSE "off")
    /\ UNCHANGED <<markvars, passed, made, db_first, best_block, cachevars, pendingvars,
                   panicked, last, pre, steps>>

\* The live transaction-address cache after commit: enacted entries inserted,
\* retracted ones removed.
CommitTxs(live, pending) ==
    Without(Extend(live, [t \in {k \in DOMAIN pending : pending[k] # {}} |->
                             TheOne(pending[t])]),
            {k \in DOMAIN pending : pending[k] = {}})

\* A faulty commit: the staged best block is dropped.
CommitBestKept(pending) == best_block

\* `if let Some(block) = pending_best_block.take() { *best_block = block; }`
CommitBest(pending) == IF pending = {} THEN best_block ELSE TheOne(pending)

\* commit(): the staged overlays move into the live state.
Commit ==
    /\ UNCHANGED auxvars
    /\ ~panicked
    /\ best_block' = CommitBest(pending_best_block)
    /\ pending_best_block' = {}
    /\ block_hashes' = Extend(block_hashes, pending_block_hashes)
    /\ transaction_addresses' =
           CommitTxs(transaction_addresses, pending_transaction_addresses)
    /\ block_details' = Extend(block_details, pending_block_details)
    /\ pending_block_hashes' = EmptyMap
    /\ pending_block_details' = EmptyMap
    /\ pending_transaction_addresses' = EmptyMap
    /\ CycleStep(IF cycle \in {"written", "idle"} THEN "idle" ELSE "off")
    /\ UNCHANGED <<markvars, journalvars,
                   made, dbvars, block_bodies, block_receipts, blocks_blooms, batch,
                   panicked, last, pre, steps>>

\* A reader's block_details(h), block_hash(n), transaction_address(t) or block_body(h)
\* that misses the cache and loads the stored record into it.
ReadBlockDetails ==
    /\ UNCHANGED auxvars
    /\ ReaderStep
    /\ \E h \in DOMAIN db_details \ DOMAIN block_details :
         block_details' = Populate(block_details, db_details, {h})
    /\ UNCHANGED <<markvars, journalvars,
                   made, dbvars, best_block, block_bodies, block_hashes,
                   transaction_addresses, block_receipts, blocks_blooms, pendingvars,
                   batch, panicked, cycle, last, pre, off_steps>>

ReadBlockHash ==
    /\ UNCHANGED auxvars
    /\ ReaderStep
    /\ \E n \in DOMAIN db_hashes \ DOMAIN block_hashes :
         block_hashes' = Populate(block_hashes, db_hashes, {n})
    /\ UNCHANGED <<markvars, journalvars,
                   made, dbvars, best_block, block_bodies, block_details,
                   transaction_addresses, block_receipts, blocks_blooms, pendingvars,
                   batch, panicked, cycle, last, pre, off_steps>>

ReadTransactionAddress ==
    /\ UNCHANGED auxvars
    /\ ReaderStep
    /\ \E t \in DOMAIN db_txs \ DOMAIN transaction_addresses :
         transaction_addresses' = Populate(transaction_addresses, db_txs, {t})
    /\ UNCHANGED <<markvars, journalvars,
                   made, dbvars, best_block, block_bodies, block_details, block_hashes,
                   block_receipts, blocks_blooms, pendingvars, batch, panicked, cycle,
                   last, pre, off_steps>>

ReadBlockBody ==
    /\ UNCHANGED auxvars
    /\ ReaderStep
    /\ \E h \in db_blocks : /\ BodyLoads({h}) # {}
                            /\ block_bodies' = block_bodies \cup {h}
    /\ UNCHANGED <<markvars, journalvars,
                   made, dbvars, best_block, block_details, block_hashes,
                   transaction_addresses, block_receipts, blocks_blooms, pendingvars,
                   batch, panicked, cycle, last, pre, off_steps>>

\* A reader's block_receipts(h) that misses the cache.
ReadBlockReceipts ==
    /\ UNCHANGED auxvars
    /\ ReaderStep
    /\ \E h \in DOMAIN db_receipts \ DOMAIN block_receipts :
         block_receipts' = Populate(block_receipts, db_receipts, {h})
    /\ UNCHANGED <<markvars, journalvars,
                   made, dbvars, best_block, block_bodies, block_details, block_hashes,
                   transaction_addresses, blocks_blooms, pendingvars, batch, panicked,
                   cycle, last, pre, off_steps>>

\* A reader's blocks_with_bloom(bloom, from_block, to_block) that loads at least one
\* group into the cache.
BlocksWithBloomCall ==
    /\ UNCHANGED auxvars
    /\ ReaderStep
    /\ \E q \in Blooms, from_block \in Numbers, to_block \in Numbers :
         /\ blocks_blooms' = Populate(blocks_blooms, db_blooms,
                                      WithBloomReads(from_block, to_block, q))
         /\ blocks_blooms' # blocks_blooms
    /\ UNCHANGED <<markvars, journalvars,
                   made, dbvars, best_block, block_bodies, block_details, block_hashes,
                   transaction_addresses, block_receipts, pendingvars, batch, panicked,
                   cycle, last, pre, off_steps>>

\* collect_garbage(): the cache manager picks the entries to evict; here every entry
\* of one cache, or every entry of every cache.
CollectGarbage ==
    /\ UNCHANGED auxvars
    /\ ReaderStep
    /\ \E kinds \in {{"bodies"}, {"details"}, {"hashes"}, {"txs"}, {"receipts"},
                      {"blooms"},
                      {"bodies", "details", "hashes", "txs", "receipts", "blooms"}} :
         /\ block_bodies' = IF "bodies" \in kinds THEN {} ELSE block_bodies
         /\ block_details' = IF "details" \in kinds THEN EmptyMap ELSE block_details
         /\ block_hashes' = IF "hashes" \in kinds THEN EmptyMap ELSE block_hashes
         /\ transaction_addresses' =
                IF "txs" \in kinds THEN EmptyMap ELSE transaction_addresses
         /\ block_receipts' = IF "receipts" \in kinds THEN EmptyMap ELSE block_receipts
         /\ blocks_blooms' = IF "blooms" \in kinds THEN EmptyMap ELSE blocks_blooms
         /\ <<block_bodies', block_details', block_hashes', transaction_addresses',
               block_receipts', blocks_blooms'>> # cachevars
    /\ UNCHANGED <<markvars, journalvars,
                   made, dbvars, best_block, pendingvars, batch, panicked, cycle,
                   last, pre, off_steps>>

Next ==
    \/ InsertNewBlock
    \/ InsertBlockAgain
    \/ WriteBatch
    \/ Commit
    \/ ReadBlockDetails
    \/ ReadBlockHash
    \/ ReadTransactionAddress
    \/ ReadBlockBody
    \/ ReadBlockReceipts
    \/ CollectGarbage

Spec == Init /\ [][Next]_vars

\* ------------------------------------------------ insert_unordered_block
\* The caller keeping the cycle: a step that would leave it is not taken.
CycleInsert == InsertNewBlock /\ cycle' # "off"
CycleWrite == WriteBatch /\ cycle' # "off"
CycleCommit == Commit /\ cycle' # "off"

\* `if self.is_known(&hash) { return false; }`
UnorderedKnownReturn(b) ==
    /\ last' = CallRecord(b, "known", CanonChainLoc, 0, ImportRouteNone)
    /\ UNCHANGED <<markvars, journalvars,
                   dbvars, best_block, cachevars, pendingvars, batch, panicked, cycle,
                   pre, steps, off_steps>>

\* `best_ancient_number.unwrap_or(0)`
AncientNumberOr0(number) == IF number = {} THEN 0 ELSE TheOne(number)

\* The number best_ancient_block holds, 0 for None.
AncientNumber(ancient) == IF ancient = {} THEN 0 ELSE TheOne(ancient).number

\* A faulty marker: it moves to the block whatever number it holds already.
AncientUpdateUncompared(b, is_ancient) ==
    IF ~is_ancient THEN UNCHANGED <<best_ancient_block, batch_extra, block_hashes>>
    ELSE /\ block_hashes' = Populate(block_hashes, db_hashes, {b.number + 1})
         /\ IF BlockHashAt(b.number + 1) # {}
            THEN /\ batch_extra' = [batch_extra EXCEPT !.ancient = {{}}]
                 /\ best_ancient_block' = {}
            ELSE /\ batch_extra' = [batch_extra EXCEPT !.ancient = {{b.hash}}]
                 /\ best_ancient_block' = {[hash |-> b.hash, number |-> b.number]}

\* `if is_ancient { ... }`: the "ancient" key is deleted once the block at number + 1
\* is there, and moves up to the block otherwise.
AncientUpdate(b, is_ancient) ==
    IF ~is_ancient THEN UNCHANGED <<best_ancient_block, batch_extra, block_hashes>>
    ELSE /\ block_hashes' = Populate(block_hashes, db_hashes, {b.number + 1})
         /\ IF BlockHashAt(b.number + 1) # {}
            THEN /\ batch_extra' = [batch_extra EXCEPT !.ancient = {{}}]
                 /\ best_ancient_block' = {}
            ELSE IF b.number > AncientNumber(best_ancient_block)
            THEN /\ batch_extra' = [batch_extra EXCEPT !.ancient = {{b.hash}}]
                 /\ best_ancient_block' = {[hash |-> b.hash, number |-> b.number]}
            ELSE UNCHANGED <<best_ancient_block, batch_extra>>

\* prepare_update with the updates of a block placed as CanonChain, whatever its
\* total difficulty.
UnorderedUpdates(b, info, details_update, is_best, is_ancient, outcome) ==
    /\ PrepareUpdate(info, PrepareBlockHashesUpdate(b, info).map, details_update,
                     PrepareBlockReceiptsUpdate(b, info),
                     BloomsWritten(info.location, PrepareBlockBloomsUpdate(b, info).map),
                     PrepareTransactionAddressesUpdate(b, info).map, is_best)
    /\ block_details' = Populate(block_details, db_details, {b.parent})
    /\ last' = [CallRecord(b, outcome, info.location, info.total_difficulty,
                           ImportRouteNone)
                   EXCEPT !.is_best = is_best, !.is_ancient = is_ancient]
    /\ pre' = LiveView
    /\ CycleStep(IF cycle = "idle" THEN "staged" ELSE "off")
    /\ UNCHANGED <<first_block, passed, dbvars, best_block, block_bodies,
                   transaction_addresses, panicked, steps>>

\* The parent's details are known: the parent takes the block as a child.
UnorderedParent(b, info, is_best, is_ancient) ==
    /\ UnorderedUpdates(b, info, PrepareBlockDetailsUpdate(b, info), is_best, is_ancient,
                        "unordered")
    /\ AncientUpdate(b, is_ancient)

\* The parent is not known: the block's own details only, and no "ancient" handling.
UnorderedDisconnected(b, info, is_best, is_ancient) ==
    /\ UnorderedUpdates(b, info, [h \in {info.hash} |-> NewDetails(b, info)], is_best,
                        is_ancient, "disconnected")
    /\ UNCHANGED <<best_ancient_block, batch_extra, block_hashes>>

\* A faulty placement: a block that does not beat the best block is put on a branch.
UnorderedLocationCompared(total_difficulty) ==
    IF IsNewBest(total_difficulty) THEN CanonChainLoc ELSE BranchLoc

\* `location: BlockLocation::CanonChain` of both BlockInfo values.
UnorderedLocation(total_difficulty) == CanonChainLoc

\* The BlockInfo of insert_unordered_block: no route is computed.
UnorderedInfo(b, total_difficulty, reads) ==
    InfoOf(b, total_difficulty, UnorderedLocation(total_difficulty), ZeroHash, <<>>,
           <<>>, reads)

\* insert_unordered_block(batch, bytes, receipts, parent_td, is_best, is_ancient).
InsertUnorderedCall(b, parent_td, is_best, is_ancient) ==
    IF BlockDetailsOf(b.hash) # {} THEN UnorderedKnownReturn(b)
    ELSE IF pending_best_block # {} THEN Panic("assert_pending_best_block")
    ELSE IF BlockDetailsOf(b.parent) # {}
    THEN UnorderedParent(b, UnorderedInfo(b, TheOne(BlockDetailsOf(b.parent)).total_difficulty
                                                 + b.difficulty, {b.parent}),
                         is_best, is_ancient)
    ELSE IF parent_td = {} THEN Panic("expect_parent_td")
    ELSE UnorderedDisconnected(b, UnorderedInfo(b, TheOne(parent_td) + b.difficulty, {}),
                               is_best, is_ancient)

\* The caller inserts out of order a block it has built on some block built before.
InsertUnorderedBlock ==
    /\ UNCHANGED auxvars
    /\ ~panicked
    /\ \E hash \in BlockHashes, parent \in DOMAIN made, d \in Diffs, txs \in TxLists,
          parent_td \in {{}, {GenesisDifficulty}}, is_best \in BOOLEAN,
          is_ancient \in BOOLEAN :
         /\ hash \notin DOMAIN made
         /\ \A h \in BlockHashes : h < hash => h \in DOMAIN made
         /\ Range(txs) \cap AncestorTxs(parent) = {}
         /\ made' = Extend(made, [h \in {hash} |->
                               [hash |-> hash, parent |-> parent,
                                number |-> made[parent].number + 1, difficulty |-> d,
                                txs |-> txs, receipts |-> ReceiptsOf(txs),
                                log_bloom |-> BloomOfReceipts(ReceiptsOf(txs))]])
         /\ InsertUnorderedCall(made'[hash], parent_td, is_best, is_ancient)

CycleInsertUnordered == InsertUnorderedBlock /\ cycle' # "off"

UnorderedNext ==
    \/ CycleInsert
    \/ CycleInsertUnordered
    \/ CycleWrite
    \/ CycleCommit

UnorderedSpec == Init /\ [][UnorderedNext]_vars

\* ------------------------------------------------------------------ logs
\* `blocks.sort_by(|a, b| b.cmp(a))`
RemoveAt(s, i) == SubSeq(s, 1, i - 1) \o SubSeq(s, i + 1, Len(s))
RECURSIVE SortDescending(_)
SortFrom(s, i) == <<s[i]>> \o SortDescending(RemoveAt(s, i))
SortDescending(s) ==
    IF s = <<>> THEN <<>>
    ELSE SortFrom(s, CHOOSE i \in DOMAIN s : \A j \in DOMAIN s : s[j] <= s[i])

\* `receipts.iter().fold(0, |sum, receipt| sum + receipt.logs().len())`
RECURSIVE SumLogs(_)
SumLogs(receipts) ==
    IF receipts = <<>> THEN 0 ELSE Len(Head(receipts)) + SumLogs(Tail(receipts))

\* Faulty entries: the log index counted within the transaction only.
ReceiptEntriesPerTransaction(number, hash, tx_hash, logs, transaction_index, current_log_index) ==
    [i \in 1..Len(logs) |->
        [entry |-> logs[i], block_hash |-> hash, block_number |-> number,
         transaction_hash |-> tx_hash, transaction_index |-> transaction_index,
         transaction_log_index |-> Len(logs) - (i - 1) - 1,
         log_index |-> Len(logs) - (i - 1) - 1]]

\* The LocalizedLogEntry records of one receipt, whose logs come reversed; the
\* enumerate() index is i - 1.
ReceiptEntries(number, hash, tx_hash, logs, transaction_index, current_log_index) ==
    [i \in 1..Len(logs) |->
        [entry |-> logs[i], block_hash |-> hash, block_number |-> number,
         transaction_hash |-> tx_hash, transaction_index |-> transaction_index,
         transaction_log_index |-> Len(logs) - (i - 1) - 1,
         log_index |-> current_log_index - (i - 1) - 1]]

\* The entries of one block, over its reversed receipts zipped with its reversed
\* transaction hashes; `index` is the enumerate() index, `log_index` the running
\* count.
RECURSIVE BlockEntries(_, _, _, _, _, _)
BlockEntries(number, hash, receipts, hashes, index, log_index) ==
    IF index = Len(receipts) THEN <<>>
    ELSE ReceiptEntries(number, hash, hashes[index + 1], Reverse(receipts[index + 1]),
                        Len(receipts) - index - 1, log_index)
         \o BlockEntries(number, hash, receipts, hashes, index + 1,
                         log_index - Len(receipts[index + 1]))

\* A faulty take: the entries are dropped from the other end.
TakeLast(s, limit) ==
    IF limit = {} THEN s ELSE SubSeq(s, Len(s) - Min(TheOne(limit), Len(s)) + 1, Len(s))

\* `.take(limit.unwrap_or(::std::usize::MAX))`
Take(s, limit) == IF limit = {} THEN s ELSE SubSeq(s, 1, Min(TheOne(limit), Len(s)))

\* `.filter(|log_entry| matches(&log_entry.entry))`; `matches` is the set of the log
\* entries the predicate accepts.
Matching(entries, matches) == SelectSeq(entries, LAMBDA e : e.entry \in matches)

NoLogs == [panic |-> FALSE, logs |-> <<>>]

\* The closure run on (number, hash, receipts, hashes); panic is `assert!(false)`.
BlockLogs(number, hash, receipts, hashes, matches, limit) ==
    IF Len(receipts) # Len(hashes) THEN [panic |-> TRUE, logs |-> <<>>]
    ELSE [panic |-> FALSE,
          logs |-> Take(Matching(BlockEntries(number, hash, Reverse(receipts),
                                              Reverse(hashes), 0, SumLogs(receipts)),
                                 matches),
                        limit)]

\* The three filter_map steps: block_hash, block_receipts, block_body.
LogsOfReceipts(number, hash, receipts, body, matches, limit) ==
    IF receipts = {} \/ body = {} THEN NoLogs
    ELSE BlockLogs(number, hash, TheOne(receipts), TheOne(body), matches, limit)
LogsOfHash(number, hash, matches, limit) ==
    IF hash = {} THEN NoLogs
    ELSE LogsOfReceipts(number, TheOne(hash), BlockReceiptsOf(TheOne(hash)),
                        BlockBodyOf(TheOne(hash)), matches, limit)

\* One chunk of the sorted numbers, every block of it processed and collected.
RECURSIVE ChunkLogs(_, _, _)
JoinLogs(first, rest) ==
    [panic |-> first.panic \/ rest.panic, logs |-> first.logs \o rest.logs]
ChunkLogs(sorted, matches, limit) ==
    IF sorted = <<>> THEN NoLogs
    ELSE JoinLogs(LogsOfHash(Head(sorted), BlockHashAt(Head(sorted)), matches, limit),
                  ChunkLogs(Tail(sorted), matches, limit))

\* The outer take and `logs.reverse()`.
LogsFinish(chunk, limit) ==
    IF chunk.panic THEN [panic |-> TRUE, logs |-> <<>>]
    ELSE [panic |-> FALSE, logs |-> Reverse(Take(chunk.logs, limit))]

\* logs(blocks, matches, limit) for a list of fewer than 128 numbers, which is one
\* chunk; take(0) asks for no entry, so that no chunk is processed.
Logs(blocks, matches, limit) ==
    IF limit = {0} THEN NoLogs
    ELSE LogsFinish(ChunkLogs(SortDescending(blocks), matches, limit), limit)

\* The arguments logs() is called with.
LogBlockLists ==
    {<<>>} \cup {<<a>> : a \in Numbers} \cup {<<a, b>> : a \in Numbers, b \in Numbers}
LogMatchers == {LogIds, {1, 2 * MaxTxs}, {MaxTxs}}
Limits == {{}} \cup {{k} : k \in 0..MaxLimit}

\* The hashes logs() finds for the numbers, and those of them with receipts.
LogsHashes(blocks) == UNION {BlockHashAt(n) : n \in Range(blocks)}
LogsWithReceipts(blocks) == {h \in LogsHashes(blocks) : BlockReceiptsOf(h) # {}}

\* A reader's logs(blocks, matches, limit): the records it reads are cached.  What
\* is read and whether the assertion fails depend on the numbers only, once the
\* limit is not 0.
LogsCall ==
    /\ UNCHANGED auxvars
    /\ ReaderStep
    /\ \E blocks \in LogBlockLists :
         /\ panicked' = Logs(blocks, LogIds, {}).panic
         /\ block_hashes' = Populate(block_hashes, db_hashes, Range(blocks))
         /\ block_receipts' = Populate(block_receipts, db_receipts, LogsHashes(blocks))
         /\ block_bodies' = block_bodies \cup BodyLoads(LogsWithReceipts(blocks))
         /\ <<panicked', block_hashes', block_receipts', block_bodies'>>
                # <<panicked, block_hashes, block_receipts, block_bodies>>
    /\ UNCHANGED <<markvars, journalvars,
                   made, dbvars, best_block, block_details, transaction_addresses,
                   blocks_blooms, pendingvars, batch, cycle, last, pre, off_steps>>

\* The caller inserts a block with transactions and passes no receipts for it.
InsertUnverifiedBlock ==
    /\ UNCHANGED auxvars
    /\ ~panicked
    /\ \E hash \in BlockHashes, parent \in DOMAIN made, d \in Diffs,
          txs \in TxLists \ {<<>>} :
         /\ hash \notin DOMAIN made
         /\ \A h \in BlockHashes : h < hash => h \in DOMAIN made
         /\ Range(txs) \cap AncestorTxs(parent) = {}
         /\ InsertMade([hash |-> hash, parent |-> parent,
                        number |-> made[parent].number + 1,
                        difficulty |-> d, txs |-> txs, receipts |-> <<>>,
                        log_bloom |-> BloomOfReceipts(ReceiptsOf(txs))])

CycleInsertUnverified == InsertUnverifiedBlock /\ cycle' # "off"

LogNext ==
    \/ CycleInsert
    \/ CycleInsertUnverified
    \/ CycleWrite
    \/ CycleCommit
    \/ LogsCall

LogSpec == Init /\ [][LogNext]_vars

\* ------------------------------------------------------ BlockChain::new
\* What a new instance, whose caches are empty, reads from the store.
Stored(db, key) == read_with_cache(EmptyMap, db, key)

\* A faulty search: the lower bound is not moved past a number without a hash.
RECURSIVE FirstSearch(_, _, _)
SearchProbeStuck(l, f, hash, m, found) ==
    IF found # {} THEN [FirstSearch(l, m, TheOne(found)) EXCEPT !.reads = @ \cup {m}]
    ELSE [hash |-> hash, reads |-> {m}]

\* `match bc.block_hash(m) { Some(h) => { f = m; hash = h } None => l = m + 1 }`
SearchProbe(l, f, hash, m, found) ==
    IF found # {} THEN [FirstSearch(l, m, TheOne(found)) EXCEPT !.reads = @ \cup {m}]
    ELSE [FirstSearch(m + 1, f, hash) EXCEPT !.reads = @ \cup {m}]

\* The binary search for the first block: `loop { if l >= f { break; } ... }` with
\* m = l + ((f - l) >> 1); reads are the numbers block_hash was asked for.
FirstSearch(l, f, hash) ==
    IF l >= f THEN [hash |-> hash, reads |-> {}]
    ELSE SearchProbe(l, f, hash, l + ((f - l) \div 2),
                     Stored(db_hashes, l + ((f - l) \div 2)))

\* best_ancient and best_ancient_number at startup: the genesis block stands in when
\* "ancient" is absent, the best number is above 1 and number 1 has no hash.
StartupAncient(best_number) ==
    IF db_ancient = {} /\ best_number > 1 /\ Stored(db_hashes, 1) = {}
    THEN [hash |-> Stored(db_hashes, 0), number |-> {0}, hashes_read |-> {0, 1},
          details_read |-> {}]
    ELSE [hash |-> db_ancient,
          number |-> UNION {{d.number : d \in Stored(db_details, h)} : h \in db_ancient},
          hashes_read |-> IF db_ancient = {} /\ best_number > 1 THEN {1} ELSE {},
          details_read |-> db_ancient]

\* `if hash != bc.genesis_hash()`: the hash to persist as "first", if any.
FirstFound(search) == {search.hash} \ Stored(db_hashes, 0)

\* The first block at startup: the persisted one, or the one the search finds between
\* the best-ancient number (or 0) and the best number.
SearchedFirst(search) == [first |-> FirstFound(search), hashes_read |-> {0} \cup search.reads]
StartupFirst(best_hash, best_number, ancient) ==
    IF db_first # {} THEN [first |-> db_first, hashes_read |-> {}]
    ELSE SearchedFirst(FirstSearch(AncientNumberOr0(ancient.number), best_number,
                                   best_hash))

\* `if let (Some(hash), Some(number)) = (best_ancient, best_ancient_number)`
StartupAncientBlock(ancient) ==
    {[hash |-> h, number |-> n] : h \in ancient.hash, n \in ancient.number}

\* The new instance once the best block's details and bytes are found.
ReopenLoaded(best_hash, details, ancient, first) ==
    /\ best_block' = [hash |-> best_hash, number |-> details.number,
                      total_difficulty |-> details.total_difficulty]
    /\ best_ancient_block' = StartupAncientBlock(ancient)
    /\ first_block' = first.first
    /\ db_first' = first.first
    /\ block_bodies' = {best_hash}
    /\ block_details' = Populate(EmptyMap, db_details, {best_hash} \cup ancient.details_read)
    /\ block_hashes' = Populate(EmptyMap, db_hashes,
                                ancient.hashes_read \cup first.hashes_read)
    /\ transaction_addresses' = EmptyMap
    /\ block_receipts' = EmptyMap
    /\ blocks_blooms' = EmptyMap
    /\ pending_best_block' = {}
    /\ pending_block_hashes' = EmptyMap
    /\ pending_block_details' = EmptyMap
    /\ pending_transaction_addresses' = EmptyMap
    /\ last' = CallRecord(made[best_hash], "reopened", CanonChainLoc,
                          details.total_difficulty, ImportRouteNone)
    /\ pre' = LiveView
    /\ UNCHANGED <<made, db_blocks, db_details, db_hashes, db_txs, db_best, db_receipts,
                   db_blooms, db_ancient, db_epochs, batch, journalvars, panicked, cycle,
                   steps, off_steps>>

ReopenBest(best_hash, details, ancient) ==
    ReopenLoaded(best_hash, details, ancient,
                 StartupFirst(best_hash, details.number, ancient))

\* BlockChain::new on the store the previous instance has left, once that instance
\* has completed its cycles: "best" is there, so no genesis record is written.
Reopen ==
    /\ UNCHANGED auxvars
    /\ ~panicked
    /\ cycle = "idle"
    /\ \E best_hash \in db_best :
         IF Stored(db_details, best_hash) = {} \/ best_hash \notin db_blocks
         THEN /\ Panic("expect_best_block")
              /\ UNCHANGED made
         ELSE ReopenBest(best_hash, db_details[best_hash],
                         StartupAncient(db_details[best_hash].number))

\* ---------------------------------------------------------- tree_route
\* tree_route as a query of its own, over stores in which some details records are
\* absent (never written, or written for some blocks only): every tree of MaxBlocks
\* blocks of difficulty 1 on the genesis block, inserted in the order of their hashes.
RouteParents == {p \in [BlockHashes -> AllHashes] : \A h \in BlockHashes : p[h] < h}

RECURSIVE RouteNumber(_, _)
RouteNumber(p, h) == IF h = GenesisHash THEN 0 ELSE 1 + RouteNumber(p, p[h])

RouteBlock(p, h) ==
    IF h = GenesisHash THEN GenesisBlock
    ELSE [hash |-> h, parent |-> p[h], number |-> RouteNumber(p, h), difficulty |-> 1,
          txs |-> <<>>, receipts |-> <<>>, log_bloom |-> ZeroBloom]

RouteDetails(p, h) ==
    [number |-> RouteNumber(p, h),
     total_difficulty |-> GenesisDifficulty + RouteNumber(p, h),
     parent |-> IF h = GenesisHash THEN ZeroHash ELSE p[h],
     children |-> Ascending({c \in BlockHashes : p[c] = h})]

\* The first block to reach the greatest total difficulty.
RouteBest(p) ==
    CHOOSE h \in AllHashes :
        \A g \in AllHashes : \/ RouteNumber(p, g) < RouteNumber(p, h)
                             \/ RouteNumber(p, g) = RouteNumber(p, h) /\ h <= g

RECURSIVE RouteCanon(_, _)
RouteCanon(p, h) ==
    IF h = GenesisHash THEN {h} ELSE {h} \cup RouteCanon(p, p[h])

RouteInitOf(p, kept, best) ==
    /\ made = [h \in AllHashes |-> RouteBlock(p, h)]
    /\ db_blocks = AllHashes
    /\ db_details = [h \in kept \cup {GenesisHash} |-> RouteDetails(p, h)]
    /\ db_hashes = [n \in 0..RouteNumber(p, best) |->
                       CHOOSE h \in RouteCanon(p, best) : RouteNumber(p, h) = n]
    /\ db_txs = EmptyMap
    /\ db_best = {best}
    /\ db_receipts = [h \in BlockHashes |-> <<>>]
    /\ db_blooms = EmptyMap
    /\ db_first = {}
    /\ db_ancient = {}
    /\ db_epochs = EmptyMap
    /\ best_ancient_block = {}
    /\ first_block = {}
    /\ batch_extra = EmptyExtra
    /\ passed = EmptyMap
    /\ best_block = [hash |-> best, number |-> RouteNumber(p, best),
                     total_difficulty |-> GenesisDifficulty + RouteNumber(p, best)]
    /\ block_bodies = {}
    /\ block_details = EmptyMap
    /\ block_hashes = EmptyMap
    /\ transaction_addresses = EmptyMap
    /\ block_receipts = EmptyMap
    /\ blocks_blooms = EmptyMap
    /\ pending_best_block = {}
    /\ pending_block_hashes = EmptyMap
    /\ pending_block_details = EmptyMap
    /\ pending_transaction_addresses = EmptyMap
    /\ batch = EmptyBatch
    /\ panicked = FALSE
    /\ cycle = "idle"
    /\ last = CallRecord(GenesisBlock, "none", BranchLoc, 0, ImportRouteNone)
    /\ pre = [best |-> best_block,
              hashes |-> [n \in Numbers |-> {}],
              details |-> [h \in AllHashes |-> {}],
              txs |-> [t \in Txs |-> {}],
              receipts |-> [h \in AllHashes |-> {}],
              blooms |-> [q \in Blooms |-> <<>>],
              first |-> {},
              ancient |-> {}]
    /\ steps = 0
    /\ off_steps = 0
    /\ AuxInit

RouteInit ==
    \E p \in RouteParents, kept \in SUBSET BlockHashes : RouteInitOf(p, kept, RouteBest(p))

\* What a tree_route call leaves behind: the details it has read are cached.
TreeRouteReturn(route) ==
    /\ panicked' = route.panic
    /\ block_details' = Populate(block_details, db_details, route.seen)

\* A caller's tree_route(from, to).
TreeRouteCall ==
    /\ UNCHANGED auxvars
    /\ ~panicked
    /\ \E from \in AllHashes, to \in AllHashes : TreeRouteReturn(TreeRoute(from, to))
    /\ UNCHANGED <<markvars, journalvars,
                   made, dbvars, best_block, block_bodies, block_hashes,
                   transaction_addresses, block_receipts, blocks_blooms, pendingvars,
                   batch, cycle, last, pre, steps, off_steps>>

RouteNext == TreeRouteCall

RouteSpec == RouteInit /\ [][RouteNext]_vars

\* -------------------------------------------------------- ancestry_iter
\* A faulty step: the parent is yielded in place of the current hash.
RECURSIVE AncestryWalk(_)
AncestryStepParent(current, details) ==
    IF details = {} THEN <<>>
    ELSE <<TheOne(details).parent>> \o AncestryWalk(TheOne(details).parent)

\* `block_details(&self.current).map(|details| mem::replace(&mut self.current,
\* details.parent))`: the current hash is yielded and the parent becomes current.
AncestryStep(current, details) ==
    IF details = {} THEN <<>>
    ELSE <<current>> \o AncestryWalk(TheOne(details).parent)

\* AncestryIter::next until it returns None: the hashes yielded from `current` on.
AncestryWalk(current) ==
    IF current = ZeroHash THEN <<>> ELSE AncestryStep(current, BlockDetailsOf(current))

\* ancestry_iter(first): None for an unknown block, else the iterator, given by the
\* hashes it yields.
AncestryIter(first) ==
    IF BlockDetailsOf(first) = {} THEN {} ELSE {AncestryWalk(first)}

\* A caller runs ancestry_iter(first) to its end: the details it reads are cached.
AncestryIterCall ==
    /\ UNCHANGED auxvars
    /\ ~panicked
    /\ \E first \in AllHashes :
         /\ AncestryIter(first) # {}
         /\ block_details' = Populate(block_details, db_details, Range(AncestryWalk(first)))
         /\ block_details' # block_details
    /\ UNCHANGED <<markvars, journalvars, made, dbvars, best_block, block_bodies,
                   block_hashes, transaction_addresses, block_receipts, blocks_blooms,
                   pendingvars, batch, panicked, cycle, last, pre, steps, off_steps>>

AncestryNext ==
    \/ AncestryIterCall
    \/ TreeRouteCall

AncestrySpec == RouteInit /\ [][AncestryNext]_vars

\* ------------------------------------------------------ unordered import
\* The caller imports, in any order, the blocks of one tree built elsewhere: block h on
\* some block of a lower hash, the blocks carrying the header log blooms {1}, {2} and
\* {1, 2}.  The chain of MaxBlocks blocks is one of the trees.
GapTxs(n) == IF n < MaxBlocks /\ n <= MaxTxs THEN <<n>> ELSE <<>>
GapBlock(p, h) ==
    [hash |-> h, parent |-> p[h], number |-> RouteNumber(p, h),
     difficulty |-> IF h = GenesisHash + 2 THEN MaxDiff ELSE 1,
     txs |-> GapTxs(h - GenesisHash), receipts |-> ReceiptsOf(GapTxs(h - GenesisHash)),
     log_bloom |-> IF GapTxs(h - GenesisHash) = <<>> THEN Txs ELSE {h - GenesisHash}]

GapChain == [h \in BlockHashes |-> h - 1]

GapInit ==
    /\ \E p \in RouteParents :
          made = [h \in AllHashes |-> IF h = GenesisHash THEN GenesisBlock
                                                          ELSE GapBlock(p, h)]
    /\ InitStore

\* The total difficulty the caller supplies for the parent of a block whose parent may
\* be missing: none, or the parent's own.
GapParentTd(b) == {{}, {TrueTotalDifficulty(b.parent)}}

InsertGapBlock ==
    /\ UNCHANGED auxvars
    /\ ~panicked
    /\ \E hash \in BlockHashes, is_best \in BOOLEAN, is_ancient \in BOOLEAN :
         \E parent_td \in GapParentTd(made[hash]) :
             InsertUnorderedCall(made[hash], parent_td, is_best, is_ancient)
    /\ cycle' # "off"
    /\ UNCHANGED made

GapNext ==
    \/ InsertGapBlock
    \/ CycleWrite
    \/ CycleCommit
    \/ Reopen

GapSpec == GapInit /\ [][GapNext]_vars

\* ------------------------------------------------ epoch transitions
Epochs == 0..MaxEpoch

\* EpochTransition { block_hash, block_number, proof } of a block built so far.
EpochCandidate(hash) == [block_hash |-> hash, block_number |-> made[hash].number]

\* `match self.db.read(db::COL_EXTRA, &epoch_num)`: the candidates of the stored
\* record, none for a new one.  The batch is not consulted.
StoredCandidates(epoch_num) ==
    IF epoch_num \in DOMAIN db_epochs THEN db_epochs[epoch_num] ELSE <<>>

\* `candidates.iter().find(|c| c.block_hash == transition.block_hash).is_none()`
NoSuchCandidate(candidates, transition) ==
    \A i \in DOMAIN candidates : candidates[i].block_hash # transition.block_hash

\* insert_epoch_transition(batch, epoch_num, transition).
InsertEpochTransitionCall(epoch_num, transition) ==
    batch_extra' =
        IF NoSuchCandidate(StoredCandidates(epoch_num), transition)
        THEN [batch_extra EXCEPT !.epochs =
                  Extend(@, [e \in {epoch_num} |->
                                Append(StoredCandidates(epoch_num), transition)])]
        ELSE batch_extra

\* The block hashes passed for an epoch so far, and the number of them over all epochs.
PassedFor(p, e) == IF e \in DOMAIN p THEN p[e] ELSE {}
RECURSIVE PassedCount(_, _)
PassedCount(p, es) ==
    IF es = {} THEN 0
    ELSE Cardinality(PassedFor(p, CHOOSE e \in es : TRUE))
             + PassedCount(p, es \ {CHOOSE e \in es : TRUE})

\* The blocks transitions are passed for: those at number 1.
EpochBlocks == {h \in DOMAIN made : made[h].number = 1}

\* The caller stages an epoch transition into the batch of the block it has just
\* inserted, for that block or for another one.
InsertEpochTransition ==
    /\ UNCHANGED auxvars
    /\ ~panicked
    /\ cycle = "staged"
    /\ \E epoch_num \in Epochs, hash \in EpochBlocks :
         /\ InsertEpochTransitionCall(epoch_num, EpochCandidate(hash))
         /\ passed' = Extend(passed, [e \in {epoch_num} |->
                                         PassedFor(passed, epoch_num) \cup {hash}])
         /\ PassedCount(passed', Epochs) <= MaxEpochCalls
    /\ UNCHANGED <<markvars, made, dbvars, best_block, cachevars, pendingvars, batch,
                   panicked, cycle, last, pre, steps, off_steps>>

\* `block_hash(transition.block_number).map_or(false, |hash| hash == ..block_hash)`
IsInCanonChain(transition) ==
    BlockHashAt(transition.block_number) = {transition.block_hash}

\* first_block_number(): the number in the details of first_block.
FirstBlockNumber == UNION {{d.number : d \in BlockDetailsOf(h)} : h \in first_block}

\* `first_block_number().map_or(false, |first| first > transition.block_number)`
IsAncientTransition(transition) ==
    \E first \in FirstBlockNumber : first > transition.block_number

\* A faulty loop: the first candidate of a record is returned whatever it is.
RECURSIVE EpochYielded(_)
EpochYieldedFirst(candidates) ==
    IF candidates = <<>> THEN {} ELSE {Head(candidates)}

\* `for transition in transitions.candidates`: the first candidate that is ancient or
\* on the canonical chain, if any.
EpochYielded(candidates) ==
    IF candidates = <<>> THEN {}
    ELSE IF IsAncientTransition(Head(candidates)) \/ IsInCanonChain(Head(candidates))
    THEN {Head(candidates)}
    ELSE EpochYielded(Tail(candidates))

\* The candidates the loop looks at: up to the one it returns.
RECURSIVE EpochVisited(_)
EpochVisited(candidates) ==
    IF candidates = <<>> THEN {}
    ELSE IF IsAncientTransition(Head(candidates)) \/ IsInCanonChain(Head(candidates))
    THEN {Head(candidates)}
    ELSE {Head(candidates)} \cup EpochVisited(Tail(candidates))

\* The order in which iter_from_prefix hands over the epoch records: by key, the
\* epoch number following the prefix in the key.
EpochKeys == Ascending(DOMAIN db_epochs)

\* EpochTransitionIter: the pairs (transitions.number, transition) of the records that
\* yield one, in the order of the keys.
RECURSIVE EpochWalk(_)
EpochWalk(keys) ==
    IF keys = <<>> THEN <<>>
    ELSE [i \in 1..Cardinality(EpochYielded(db_epochs[Head(keys)])) |->
              <<Head(keys), TheOne(EpochYielded(db_epochs[Head(keys)]))>>]
         \o EpochWalk(Tail(keys))

\* epoch_transitions() collected.
EpochTransitions == EpochWalk(EpochKeys)

\* A reader's epoch_transitions() run to the end: block_hash of the numbers of the
\* candidates looked at and the details of first_block are read through the caches;
\* first_block_number() fails if the first block has no details.
AllVisited == UNION {EpochVisited(db_epochs[e]) : e \in DOMAIN db_epochs}
EpochTransitionsCall ==
    /\ UNCHANGED auxvars
    /\ ReaderStep
    /\ AllVisited # {}
    /\ block_hashes' = Populate(block_hashes, db_hashes,
                                {c.block_number : c \in AllVisited})
    /\ block_details' = Populate(block_details, db_details, first_block)
    /\ panicked' = (first_block # {} /\ FirstBlockNumber = {})
    /\ <<block_hashes', block_details', panicked'>> # <<block_hashes, block_details, panicked>>
    /\ UNCHANGED <<markvars, journalvars, made, dbvars, best_block, block_bodies,
                   transaction_addresses, block_receipts, blocks_blooms, pendingvars,
                   batch, cycle, last, pre, off_steps>>

\* `candidates.into_iter().find(|c| c.block_hash == block_hash)`
RECURSIVE FindCandidate(_, _)
FindCandidate(candidates, block_hash) ==
    IF candidates = <<>> THEN {}
    ELSE IF Head(candidates).block_hash = block_hash THEN {Head(candidates)}
    ELSE FindCandidate(Tail(candidates), block_hash)

\* epoch_transition(block_num, block_hash): the record is read under the key made of
\* block_num, the key insert_epoch_transition makes of epoch_num.
EpochTransition(block_num, block_hash) ==
    FindCandidate(StoredCandidates(block_num), block_hash)

\* `.map(|(_, t)| t).take_while(|t| t.block_number <= details.number).last()`
RECURSIVE LastUpTo(_, _, _)
LastUpTo(pairs, number, found) ==
    IF pairs = <<>> THEN found
    ELSE IF Head(pairs)[2].block_number > number THEN found
    ELSE LastUpTo(Tail(pairs), number, {Head(pairs)[2]})

\* The loop of epoch_transition_for over the hashes of the ancestry: the transition
\* found for the block itself, or, at a canonical block, the last of the transitions up
\* to its number; None when the details or the hash of the number are missing.
RECURSIVE EpochTransitionForWalk(_)
EpochTransitionForStep(hashes, details) ==
    IF details = {} THEN {}
    ELSE IF EpochTransition(TheOne(details).number, Head(hashes)) # {}
    THEN EpochTransition(TheOne(details).number, Head(hashes))
    ELSE IF BlockHashAt(TheOne(details).number) = {} THEN {}
    ELSE IF BlockHashAt(TheOne(details).number) = {Head(hashes)}
    THEN LastUpTo(EpochTransitions, TheOne(details).number, {})
    ELSE EpochTransitionForWalk(Tail(hashes))

EpochTransitionForWalk(hashes) ==
    IF hashes = <<>> THEN {}
    ELSE EpochTransitionForStep(hashes, BlockDetailsOf(Head(hashes)))

\* epoch_transition_for(parent_hash): None for an unknown parent.
EpochTransitionFor(parent_hash) ==
    IF AncestryIter(parent_hash) = {} THEN {}
    ELSE EpochTransitionForWalk(TheOne(AncestryIter(parent_hash)))

\* The caller imports, in any order, the blocks of a tree built elsewhere with two
\* blocks on the genesis block and a third on the first of them, stages epoch
\* transitions with them and restarts in between; a reader walks the transitions.
EpochTree == [h \in BlockHashes |-> IF h <= GenesisHash + 2 THEN GenesisHash
                                                             ELSE GenesisHash + 1]

EpochInit ==
    /\ made = [h \in AllHashes |-> IF h = GenesisHash THEN GenesisBlock
                                                       ELSE GapBlock(EpochTree, h)]
    /\ InitStore

\* The total difficulty of the parent is always supplied, and the "ancient" marker is
\* left alone.
InsertEpochBlock ==
    /\ UNCHANGED auxvars
    /\ ~panicked
    /\ \E hash \in BlockHashes, is_best \in BOOLEAN :
         InsertUnorderedCall(made[hash], {TrueTotalDifficulty(made[hash].parent)},
                             is_best, FALSE)
    /\ cycle' # "off"
    /\ UNCHANGED made

EpochNext ==
    \/ InsertEpochBlock
    \/ InsertEpochTransition
    \/ CycleWrite
    \/ CycleCommit
    \/ Reopen
    \/ EpochTransitionsCall

EpochSpec == EpochInit /\ [][EpochNext]_vars

\* The caller inserts blocks, each written and committed, and restarts in between;
\* a reader queries the blooms, which a restart leaves out of the cache.
ReopenNext ==
    \/ CycleInsert
    \/ CycleWrite
    \/ CycleCommit
    \/ Reopen
    \/ BlocksWithBloomCall

ReopenSpec == Init /\ [][ReopenNext]_vars

\* ------------------------------------------------------------ ArchiveDB
ArchiveKeys == 1..MaxKeys
Eras == 0..MaxEra

\* MemoryDB::raw(key): the reference count of an entry of the overlay.
OverlayRc(key) == IF key \in DOMAIN overlay THEN {overlay[key]} ELSE {}

\* payload(key): the backing store's value.
Payload(key) == IF key \in backing THEN {key} ELSE {}

\* get(key): the overlay's value if its count is positive, else the payload.
ArchiveGet(key) ==
    IF \E rc \in OverlayRc(key) : rc > 0 THEN {key} ELSE Payload(key)

\* contains(key)
ArchiveContains(key) == ArchiveGet(key) # {}

\* MemoryDB::insert / emplace: the count of the entry goes up, from 0 for a new one.
OverlayInsert(key) ==
    Extend(overlay, [k \in {key} |-> IF key \in DOMAIN overlay THEN overlay[key] + 1
                                                                ELSE 1])

\* MemoryDB::remove: the count goes down, from 0 for a new entry.
OverlayRemove(key) ==
    Extend(overlay, [k \in {key} |-> IF key \in DOMAIN overlay THEN overlay[key] - 1
                                                                ELSE 0 - 1])

\* insert(value) and emplace(key, value) of a value with that key.
ArchiveInsert ==
    /\ ~jdb_panicked
    /\ \E key \in ArchiveKeys :
         /\ \A rc \in OverlayRc(key) : rc < MaxRc
         /\ overlay' = OverlayInsert(key)
    /\ UNCHANGED <<chainvars, racevars, lockvars, backing, backing_era, latest_era,
                   jdb_panicked, journaled, purged>>

\* remove(key)
ArchiveRemove ==
    /\ ~jdb_panicked
    /\ \E key \in ArchiveKeys :
         /\ \A rc \in OverlayRc(key) : rc > 0 - MaxRc
         /\ overlay' = OverlayRemove(key)
    /\ UNCHANGED <<chainvars, racevars, lockvars, backing, backing_era, latest_era,
                   jdb_panicked, journaled, purged>>

\* The entries of a drained overlay with a positive and with a negative count.
Inserted(drained) == {k \in DOMAIN drained : drained[k] > 0}
Deleted(drained) == {k \in DOMAIN drained : drained[k] < 0}

\* A faulty journal: the keys with a negative count are deleted, as inject does.
JournalUnderDeleting(keys, drained) == (keys \cup Inserted(drained)) \ Deleted(drained)

\* journal_under: the keys of the column once the batch is written; only
\* `batch.put` is issued, for the entries with a positive count.
JournalUnder(keys, drained) == keys \cup Inserted(drained)

\* `assert!(rc == -1)` for an entry with a negative count.
JournalAssertFails(drained) == \E k \in Deleted(drained) : drained[k] # 0 - 1

\* `if self.latest_era.map_or(true, |e| now > e)`
NewEra(now) == \A e \in latest_era : now > e

\* commit_batch(now, id, end): journal_under drains the overlay into a batch,
\* mark_canonical adds nothing, and the batch is written to the backing store.  A
\* failed assertion leaves the store as it was.
CommitBatch ==
    /\ ~jdb_panicked
    /\ \E now \in Eras :
         IF JournalAssertFails(overlay)
         THEN /\ jdb_panicked' = TRUE
              /\ UNCHANGED <<overlay, backing, backing_era, latest_era, journaled, purged>>
         ELSE /\ backing' = JournalUnder(backing, overlay)
              /\ overlay' = EmptyMap
              /\ backing_era' = IF NewEra(now) THEN {now} ELSE backing_era
              /\ latest_era' = IF NewEra(now) THEN {now} ELSE latest_era
              /\ journaled' = journaled \cup Inserted(overlay)
              /\ purged' = purged \cup Deleted(overlay)
              /\ UNCHANGED jdb_panicked
    /\ UNCHANGED <<chainvars, racevars, lockvars>>

\* ArchiveDB::new on the same backing store: an empty overlay, and the era stored
\* under LATEST_ERA_KEY.
ArchiveReopen ==
    /\ overlay' = EmptyMap
    /\ latest_era' = backing_era
    /\ jdb_panicked' = FALSE
    /\ <<overlay', latest_era', jdb_panicked'>> # <<overlay, latest_era, jdb_panicked>>
    /\ UNCHANGED <<chainvars, racevars, lockvars, backing, backing_era, journaled,
                   purged>>

ArchiveNext ==
    \/ ArchiveInsert
    \/ ArchiveRemove
    \/ CommitBatch
    \/ ArchiveReopen

ArchiveSpec == Init /\ [][ArchiveNext]_vars

\* ------------------------------------------- read_with_cache, step by step
\* The live cache and the stored records a typed query reads through.
LiveCache(kind) ==
    CASE kind = "details" -> block_details
      [] kind = "hashes" -> block_hashes
      [] kind = "txs" -> transaction_addresses
StoredRecords(kind) ==
    CASE kind = "details" -> db_details
      [] kind = "hashes" -> db_hashes
      [] kind = "txs" -> db_txs

\* The first half of a read_with_cache that misses: the cache holds no value for the
\* key and the record is loaded from the store; the cache is not locked meanwhile.
ReadMiss ==
    /\ ~panicked
    /\ reading = {}
    /\ \E kind \in {"details", "hashes", "txs"} :
         \E key \in DOMAIN StoredRecords(kind) \ DOMAIN LiveCache(kind) :
             reading' = {[kind |-> kind, key |-> key, value |-> StoredRecords(kind)[key]]}
    /\ UNCHANGED <<chainvars, archivevars, lockvars>>

\* The cache with the loaded record inserted: `write.insert(key, value)`.
Filled(cache, kind, loaded) ==
    IF loaded.kind = kind
    THEN Extend(cache, [k \in {loaded.key} |-> loaded.value])
    ELSE cache

\* The second half: the loaded record is inserted into the cache and returned.
ReadFill ==
    /\ ~panicked
    /\ reading # {}
    /\ block_details' = Filled(block_details, "details", TheOne(reading))
    /\ block_hashes' = Filled(block_hashes, "hashes", TheOne(reading))
    /\ transaction_addresses' = Filled(transaction_addresses, "txs", TheOne(reading))
    /\ reading' = {}
    /\ UNCHANGED <<archivevars, lockvars, markvars, journalvars, made, dbvars, best_block,
                   block_bodies, block_receipts, blocks_blooms, pendingvars, batch,
                   panicked, cycle, last, pre, steps, off_steps>>

\* The caller builds block h on some block built before; the first block holds
\* transaction 1, the others none.
RaceTxs(hash) == IF hash = GenesisHash + 1 THEN <<1>> ELSE <<>>
RaceInsert ==
    /\ UNCHANGED auxvars
    /\ ~panicked
    /\ \E hash \in BlockHashes, parent \in DOMAIN made, d \in Diffs :
         /\ hash \notin DOMAIN made
         /\ \A h \in BlockHashes : h < hash => h \in DOMAIN made
         /\ InsertMade([hash |-> hash, parent |-> parent,
                        number |-> made[parent].number + 1, difficulty |-> d,
                        txs |-> RaceTxs(hash), receipts |-> ReceiptsOf(RaceTxs(hash)),
                        log_bloom |-> BloomOfReceipts(ReceiptsOf(RaceTxs(hash)))])
    /\ cycle' # "off"

\* The caller inserts blocks, each written and committed; a reader's read-through
\* runs in two steps beside it, after an eviction has made room for a miss.
RaceNext ==
    \/ RaceInsert
    \/ CycleWrite
    \/ CycleCommit
    \/ CollectGarbage
    \/ ReadMiss
    \/ ReadFill

RaceSpec == Init /\ [][RaceNext]_vars

\* ----------------------------------------------------------------- locks
\* The order the locks are declared in and must be taken in.
LockOrder ==
    <<"best_block", "best_ancient_block", "block_headers", "block_bodies",
      "block_details", "block_hashes", "transaction_addresses", "blocks_blooms",
      "block_receipts", "cache_manager">>

\* The pending overlays, each with its live counterpart.
LiveOf ==
    [pending_best_block |-> "best_block",
     pending_block_hashes |-> "block_hashes",
     pending_block_details |-> "block_details",
     pending_transaction_addresses |-> "transaction_addresses"]

\* A step of an operation: a lock taken for reading or writing and kept, a lock taken
\* for one statement, or the guards of a set of locks dropped.
Lock(lock, mode) == <<[kind |-> "take", lock |-> lock, mode |-> mode, locks |-> {}]>>
Drop(locks) == <<[kind |-> "drop", lock |-> "", mode |-> "", locks |-> locks]>>
\* A guard that lives for one statement: taken and dropped in one step.
Touch(lock, mode) == <<[kind |-> "touch", lock |-> lock, mode |-> mode, locks |-> {}]>>

\* read_with_cache(col, &cache, key): the cache read-locked for the lookup, then
\* write-locked for the insert of the loaded record.
ReadWithCacheLocks(cache) == Touch(cache, "read") \o Touch(cache, "write")

\* `self.cache_man.lock().note_used(..)`
NoteUsedLocks == Touch("cache_manager", "write")

\* block_details, block_hash, transaction_address, block_receipts, blooms_at.
CachedQueryLocks(cache) == ReadWithCacheLocks(cache) \o NoteUsedLocks

\* block_header_data and block_body: the cache, the best block, the cache again, and
\* the cache manager, one after the other.
BlockDataLocks(cache) ==
    Touch(cache, "read") \o Touch("best_block", "read") \o Touch(cache, "write")
        \o NoteUsedLocks

\* prepare_update: the receipts and the blooms cache one after the other, then the
\* four pending overlays together.
PrepareUpdateLocks ==
    Touch("block_receipts", "write") \o Touch("blocks_blooms", "write")
        \o Lock("pending_best_block", "write") \o Lock("pending_block_hashes", "write")
        \o Lock("pending_block_details", "write")
        \o Lock("pending_transaction_addresses", "write")
        \o Drop({"pending_best_block", "pending_block_hashes", "pending_block_details",
                 "pending_transaction_addresses"})

\* insert_block: the assertion on pending_best_block, the queries of block_info and
\* of the prepare_* functions, prepare_update.
InsertBlockLocks ==
    Touch("pending_best_block", "read") \o CachedQueryLocks("block_details")
        \o CachedQueryLocks("block_hashes") \o PrepareUpdateLocks

\* insert_unordered_block with is_ancient: after prepare_update, best_ancient_block
\* is write-locked across block_hash(number + 1).
InsertUnorderedLocks ==
    Touch("pending_best_block", "read") \o CachedQueryLocks("block_details")
        \o PrepareUpdateLocks \o Lock("best_ancient_block", "write")
        \o CachedQueryLocks("block_hashes") \o Drop({"best_ancient_block"})

\* commit: the four pending overlays, the four live maps, the cache manager.
CommitLocks ==
    Lock("pending_best_block", "write") \o Lock("pending_block_hashes", "write")
        \o Lock("pending_block_details", "write")
        \o Lock("pending_transaction_addresses", "write")
        \o Lock("best_block", "write") \o Lock("block_details", "write")
        \o Lock("block_hashes", "write") \o Lock("transaction_addresses", "write")
        \o Lock("cache_manager", "write")
        \o Drop({"pending_best_block", "pending_block_hashes", "pending_block_details",
                 "pending_transaction_addresses", "best_block", "block_details",
                 "block_hashes", "transaction_addresses", "cache_manager"})

\* cache_size(): the read guards of one expression, alive until it is evaluated.
CacheSizeLocks ==
    Lock("block_headers", "read") \o Lock("block_bodies", "read")
        \o Lock("block_details", "read") \o Lock("transaction_addresses", "read")
        \o Lock("blocks_blooms", "read") \o Lock("block_receipts", "read")
        \o Drop({"block_headers", "block_bodies", "block_details",
                 "transaction_addresses", "blocks_blooms", "block_receipts"})

\* A faulty collect_garbage: the cache manager is locked before the caches.
CollectGarbageManagerFirst ==
    CacheSizeLocks
        \o Lock("cache_manager", "write") \o Lock("block_headers", "write")
        \o Lock("block_bodies", "write") \o Lock("block_details", "write")
        \o Lock("block_hashes", "write") \o Lock("transaction_addresses", "write")
        \o Lock("blocks_blooms", "write") \o Lock("block_receipts", "write")
        \o Drop({"block_headers", "block_bodies", "block_details", "block_hashes",
                 "transaction_addresses", "blocks_blooms", "block_receipts",
                 "cache_manager"})

\* collect_garbage: cache_size(), then the seven caches write-locked, then the cache
\* manager.
CollectGarbageLocks ==
    CacheSizeLocks
        \o Lock("block_headers", "write") \o Lock("block_bodies", "write")
        \o Lock("block_details", "write") \o Lock("block_hashes", "write")
        \o Lock("transaction_addresses", "write") \o Lock("blocks_blooms", "write")
        \o Lock("block_receipts", "write") \o Lock("cache_manager", "write")
        \o Drop({"block_headers", "block_bodies", "block_details", "block_hashes",
                 "transaction_addresses", "blocks_blooms", "block_receipts",
                 "cache_manager"})

\* A faulty chain_info: best_ancient_block is locked before best_block.
ChainInfoAncientFirst ==
    Lock("best_ancient_block", "read") \o Lock("best_block", "read")
        \o CachedQueryLocks("block_hashes") \o CachedQueryLocks("block_details")
        \o Drop({"best_block", "best_ancient_block"})

\* chain_info: best_block and best_ancient_block read-locked across genesis_hash()
\* (block_hash(0)) and first_block_number() (block_details).
ChainInfoLocks ==
    Lock("best_block", "read") \o Lock("best_ancient_block", "read")
        \o CachedQueryLocks("block_hashes") \o CachedQueryLocks("block_details")
        \o Drop({"best_block", "best_ancient_block"})

\* The steps of an operation.
Program(o) ==
    CASE o = "insert_block" -> InsertBlockLocks
      [] o = "insert_unordered_block" -> InsertUnorderedLocks
      [] o = "commit" -> CommitLocks
      [] o = "collect_garbage" -> CollectGarbageLocks
      [] o = "chain_info" -> ChainInfoLocks
      [] o = "block_details" -> CachedQueryLocks("block_details")
      [] o = "blooms_at" -> CachedQueryLocks("blocks_blooms")
      [] o = "block_body" -> BlockDataLocks("block_bodies")
      [] o = "best_block_hash" -> Touch("best_block", "read")

\* The operations a thread runs.
ThreadOps(t) ==
    CASE t = "writer" -> {"insert_block", "insert_unordered_block", "commit"}
      [] t = "collector" -> {"collect_garbage"}
      [] t = "info" -> {"chain_info"}
      [] t = "reader" -> {"block_details", "blooms_at", "block_body", "best_block_hash"}

\* The step a thread is at.
StepOf(t) == Program(op[t])[pc[t]]

\* The threads whose guards keep a thread from taking the lock: any holder for a
\* write, the writers for a read.  A thread's own guard blocks it as well.
Holders(lock, mode) ==
    {u \in Threads : \E i \in DOMAIN held[u] :
        /\ held[u][i].lock = lock
        /\ mode = "write" \/ held[u][i].mode = "write"}

\* The threads waiting for a lock, and those that arrived before thread t.
QueueOf(lock) == IF lock \in DOMAIN queue THEN queue[lock] ELSE <<>>
Ahead(lock, t) ==
    {QueueOf(lock)[i] : i \in {j \in DOMAIN QueueOf(lock) :
        \E k \in DOMAIN QueueOf(lock) : j < k /\ QueueOf(lock)[k] = t}}

Waiting(t) == op[t] # "idle" /\ StepOf(t).kind # "drop"
Blockers(t) ==
    IF Waiting(t)
    THEN Holders(StepOf(t).lock, StepOf(t).mode) \cup Ahead(StepOf(t).lock, t)
    ELSE {}

\* The thread moves on: to the next step, at whose lock it arrives, or out of the
\* operation.
Advance(t, q) ==
    IF pc[t] = Len(Program(op[t]))
    THEN /\ op' = [op EXCEPT ![t] = "idle"]
         /\ pc' = [pc EXCEPT ![t] = 1]
         /\ queue' = q
    ELSE /\ pc' = [pc EXCEPT ![t] = pc[t] + 1]
         /\ queue' = Extend(q, [l \in {s.lock : s \in {x \in {Program(op[t])[pc[t] + 1]} :
                                                       x.kind # "drop"}} |->
                                   Append(IF l \in DOMAIN q THEN q[l] ELSE <<>>, t)])
         /\ UNCHANGED op

\* The operations of the threads that hold several locks at once, and one query.
NestingOps(t) == ThreadOps(t) \ {"insert_unordered_block", "blooms_at", "block_body",
                                 "best_block_hash"}

\* A thread is handed an operation and arrives at its first lock.
Begin(t, ops) ==
    /\ op[t] = "idle"
    /\ \E o \in ops :
         /\ op' = [op EXCEPT ![t] = o]
         /\ queue' = Extend(queue, [l \in {Program(o)[1].lock} |->
                                        Append(QueueOf(l), t)])
    /\ UNCHANGED <<pc, held>>

\* `.read()`, `.write()`, `.lock()`: the thread gets the guard once no other guard
\* stands against it and no thread has waited longer, and waits until then.
Acquire(t) ==
    /\ Waiting(t)
    /\ Blockers(t) = {}
    /\ held' = IF StepOf(t).kind = "touch" THEN held
               ELSE [held EXCEPT ![t] = Append(@, [lock |-> StepOf(t).lock,
                                                   mode |-> StepOf(t).mode])]
    /\ Advance(t, IF Len(queue[StepOf(t).lock]) = 1
                  THEN Without(queue, {StepOf(t).lock})
                  ELSE [queue EXCEPT ![StepOf(t).lock] = Tail(@)])

\* Guards go out of scope.
Release(t) ==
    /\ op[t] # "idle"
    /\ StepOf(t).kind = "drop"
    /\ held' = [held EXCEPT ![t] = SelectSeq(@, LAMBDA g : g.lock \notin StepOf(t).locks)]
    /\ Advance(t, queue)

Continue(t) == Acquire(t) \/ Release(t)

BeginOperation == (\E t \in Threads : Begin(t, ThreadOps(t))) /\ UNCHANGED <<chainvars, archivevars, racevars>>
BeginNesting == (\E t \in Threads : Begin(t, NestingOps(t))) /\ UNCHANGED <<chainvars, archivevars, racevars>>
AcquireLock == (\E t \in Threads : Acquire(t)) /\ UNCHANGED <<chainvars, archivevars, racevars>>
ReleaseLocks == (\E t \in Threads : Release(t)) /\ UNCHANGED <<chainvars, archivevars, racevars>>

LockNext ==
    \/ BeginOperation
    \/ AcquireLock
    \/ ReleaseLocks

LockSpec == Init /\ [][LockNext]_vars

\* Every thread is scheduled: one that can go on with its operation does so.  The
\* locks themselves are fair, granted in the order of arrival.
LockFairNext ==
    \/ BeginNesting
    \/ AcquireLock
    \/ ReleaseLocks

LockFairSpec ==
    Init /\ [][LockFairNext]_vars /\ \A t \in Threads : WF_vars(Continue(t) /\ UNCHANGED <<chainvars, archivevars, racevars>>)

\* ------------------------------------------------------------- claims
\* What the environment knows of the blocks it has built, used to state the claims
\* independently of the records the chain keeps.
RECURSIVE Ancestry(_)
Ancestry(h) == IF h \notin DOMAIN made THEN {} ELSE {h} \cup Ancestry(made[h].parent)

\* The hashes of `hs` by descending block number (one block per number on a path).
RECURSIVE Descending(_)
Descending(hs) ==
    IF hs = {} THEN <<>>
    ELSE LET top == CHOOSE h \in hs : \A g \in hs : made[g].number <= made[h].number IN
         <<top>> \o Descending(hs \ {top})

\* The caller has completed every cycle it began: nothing is staged or unwritten.
Settled == cycle = "idle" /\ ~panicked

\* The last insert_block call staged its block, and the cycle has since completed.
SettledInsert == Settled /\ last.outcome = "staged"

KnownDetails == UNION {BlockDetailsOf(h) : h \in AllHashes}

\* C1: after insert_block calls, each written and committed, the live best block's
\* total difficulty is the maximum total difficulty over the details of all known
\* blocks.
C1_BestHasMaxTotalDifficulty ==
    Settled =>
        /\ \A d \in KnownDetails : d.total_difficulty <= best_block.total_difficulty
        /\ \E d \in BlockDetailsOf(best_block.hash) :
               d.total_difficulty = best_block.total_difficulty

\* C1 witness: a completed reorganisation with every block built, so that blocks of
\* lower total difficulty are known beside the best one.
C1_Witness ==
    /\ SettledInsert
    /\ last.location = BecomingCanonLoc
    /\ DOMAIN made = AllHashes
    /\ \E d \in KnownDetails : d.total_difficulty < best_block.total_difficulty

\* C2: a block whose total difficulty equals the best block's is placed as Branch and
\* leaves the best block and every block_hash(n) as they were; the best block changes
\* only for a strictly greater total difficulty.
C2_StrictForkChoice ==
    SettledInsert =>
        /\ TrueTotalDifficulty(last.block.hash) = pre.best.total_difficulty =>
               /\ last.location = BranchLoc
               /\ best_block = pre.best
               /\ \A n \in Numbers : BlockHashAt(n) = pre.hashes[n]
        /\ best_block # pre.best =>
               TrueTotalDifficulty(last.block.hash) > pre.best.total_difficulty

\* C2 witness: a committed insertion of a block that ties with the best block.
C2_Witness ==
    /\ SettledInsert
    /\ TrueTotalDifficulty(last.block.hash) = pre.best.total_difficulty

\* C3: for every n in 1..best.number, block_hash(n) is defined, its details carry the
\* number n and name block_hash(n-1) as parent; block_hash(best.number) is the best
\* block.
C3_CanonicalNumbering ==
    Settled =>
        /\ BlockHashAt(best_block.number) = {best_block.hash}
        /\ \A n \in 1..best_block.number :
               /\ BlockHashAt(n) # {}
               /\ \A h \in BlockHashAt(n) :
                      /\ BlockDetailsOf(h) # {}
                      /\ \A d \in BlockDetailsOf(h) :
                             d.number = n /\ BlockHashAt(n - 1) = {d.parent}

\* C3 witness: a completed reorganisation that enacted a block besides the new one.
C3_Witness ==
    /\ SettledInsert
    /\ last.location = BecomingCanonLoc
    /\ Len(last.route.enacted) >= 2

\* C4: every entry of the number -> hash map is the best block or an ancestor of it;
\* in particular none exists above best.number.
C4_OnlyCanonicalHashes ==
    Settled =>
        \A n \in Numbers : \A h \in BlockHashAt(n) :
            h \in Ancestry(best_block.hash) /\ n <= best_block.number

\* The address transaction t has on the canonical chain, if it is on it.
CanonicalAddress(t) ==
    {[block_hash |-> h, index |-> i - 1] :
        <<h, i>> \in {<<g, j>> \in Ancestry(best_block.hash) \X (1..MaxTxs) :
                          j \in DOMAIN made[g].txs /\ made[g].txs[j] = t}}

\* C5: transaction_address(t) = {B, i} exactly when B is on the canonical chain and t
\* is the i-th transaction of B; a transaction of branch or retracted blocks only has
\* no address.
C5_AddressesAreCanonical ==
    Settled => \A t \in Txs : TransactionAddressOf(t) = CanonicalAddress(t)

\* C5 witness: after a completed reorganisation a transaction sits at index 1 of a
\* canonical block and another block holding it is off the canonical chain.
C5_Witness ==
    /\ SettledInsert
    /\ last.location = BecomingCanonLoc
    /\ \E t \in Txs :
         /\ \E a \in TransactionAddressOf(t) : a.index = 1
         /\ \E h \in DOMAIN made \ Ancestry(best_block.hash) : t \in Range(made[h].txs)

\* The blocks a reorganisation to the last inserted block retracts and enacts.
TrueRetracted == Ancestry(pre.best.hash) \ Ancestry(last.block.hash)
TrueEnacted == Ancestry(last.block.hash) \ Ancestry(pre.best.hash)
TxsOf(hs) == UNION {Range(made[h].txs) : h \in hs}

\* C6: after a reorganisation, a transaction of a retracted block that is also in an
\* enacted block (or the new block) has the address of its place on the new canonical
\* chain; a transaction of retracted blocks only has no address.
C6_RetractedThenEnacted ==
    (SettledInsert /\ last.location = BecomingCanonLoc) =>
        \A t \in TxsOf(TrueRetracted) :
            IF t \in TxsOf(TrueEnacted)
            THEN /\ TransactionAddressOf(t) # {}
                 /\ \A a \in TransactionAddressOf(t) :
                        /\ a.block_hash \in TrueEnacted
                        /\ made[a.block_hash].txs[a.index + 1] = t
            ELSE TransactionAddressOf(t) = {}

\* C6 witness: a completed reorganisation with one transaction in a retracted and in
\* an enacted block, and another in a retracted block only.
C6_Witness ==
    /\ SettledInsert
    /\ last.location = BecomingCanonLoc
    /\ TxsOf(TrueRetracted) \cap TxsOf(TrueEnacted) # {}
    /\ TxsOf(TrueRetracted) \ TxsOf(TrueEnacted) # {}

\* C7: between insert_block returning and commit, every query returns what it
\* returned right before insert_block, whether or not the batch has been written.
C7_PreInsertViewUntilCommit ==
    (cycle \in {"staged", "written"} /\ ~panicked /\ last.outcome = "staged") =>
        LiveView = pre

\* The queries about the inserted block B all answer as before insert_block.
AllPreInsert(b) ==
    /\ best_block = pre.best
    /\ BlockHashAt(b.number) = pre.hashes[b.number]
    /\ BlockDetailsOf(b.hash) = pre.details[b.hash]
    /\ BlockDetailsOf(b.parent) = pre.details[b.parent]
    /\ \A t \in Range(b.txs) : TransactionAddressOf(t) = pre.txs[t]

\* The queries about the inserted block B all answer as after commit.
AllApplied(b, location) ==
    /\ BlockDetailsOf(b.hash) # {}
    /\ IsKnownChild(b.parent, b.hash)
    /\ IF location = BranchLoc
       THEN /\ best_block = pre.best
            /\ BlockHashAt(b.number) = pre.hashes[b.number]
            /\ \A t \in Range(b.txs) : TransactionAddressOf(t) = pre.txs[t]
       ELSE /\ best_block.hash = b.hash
            /\ BlockHashAt(b.number) = {b.hash}
            /\ \A t \in Range(b.txs) :
                   \E a \in TransactionAddressOf(t) :
                       a.block_hash = b.hash /\ b.txs[a.index + 1] = t

\* C8: while a block B goes through insert_block, the batch write and commit, the
\* best block, block_hash(number(B)), block_details(B), the parent's children entry
\* and the addresses of B's transactions are all in their pre-insert state or all in
\* their applied state.
C8_BlockAllOrNothing ==
    (cycle # "off" /\ ~panicked /\ last.outcome = "staged") =>
        AllPreInsert(last.block) \/ AllApplied(last.block, last.location)

\* C9: while an insertion is staged and not committed, insert_block of another new
\* block fails (the pending_best_block assertion), whatever the placement of the first.
C9_SecondInsertFails ==
    [][(pending_block_details # EmptyMap /\ made' # made) => panicked']_vars

\* The common ancestors of the old best block and the inserted block's parent.
CommonAncestry == Ancestry(pre.best.hash) \cap Ancestry(last.block.parent)

\* C10: insert_block returns enacted = [new hash], retracted = [] for CanonChain; for
\* BranchBecomingCanonChain, retracted runs from the old best block down to just above
\* the common ancestor and enacted from just above the common ancestor up to the new
\* block; omitted is empty.
C10_ImportRoute ==
    last.outcome = "staged" =>
        /\ last.location = CanonChainLoc =>
               last.route = [enacted |-> <<last.block.hash>>, retracted |-> <<>>,
                             omitted |-> <<>>]
        /\ last.location = BecomingCanonLoc =>
               /\ last.route.retracted = Descending(Ancestry(pre.best.hash) \ CommonAncestry)
               /\ last.route.enacted =
                      Reverse(Descending(Ancestry(last.block.hash) \ CommonAncestry))
               /\ last.route.omitted = <<>>

\* C10 witness: a reorganisation that retracts two blocks.
C10_Witness ==
    /\ last.outcome = "staged"
    /\ last.location = BecomingCanonLoc
    /\ Len(last.route.retracted) = 2

\* The lowest common ancestor of two built blocks.
CommonAncestor(from, to) ==
    CHOOSE a \in Ancestry(from) \cap Ancestry(to) :
        \A c \in Ancestry(from) \cap Ancestry(to) : made[c].number <= made[a].number

\* The blocks whose details tree_route(from, to) has to read: both paths down to and
\* including the common ancestor.
RouteNeeds(from, to) ==
    (Ancestry(from) \cup Ancestry(to))
        \ (Ancestry(CommonAncestor(from, to)) \ {CommonAncestor(from, to)})

RouteNeedsKnown(from, to) ==
    /\ from \in DOMAIN made
    /\ to \in DOMAIN made
    /\ \A h \in RouteNeeds(from, to) : BlockDetailsOf(h) # {}

FromSide(from, to) == Ancestry(from) \ Ancestry(CommonAncestor(from, to))
ToSide(from, to) == Ancestry(to) \ Ancestry(CommonAncestor(from, to))

\* C11: for known blocks with a known common ancestor, tree_route(from, to) gives the
\* lowest common ancestor, blocks = the path from `from` down to just above it followed
\* by the path from just above it up to `to`, and index = the length of the first
\* part.
C11_TreeRoute ==
    \A from \in AllHashes, to \in AllHashes :
        RouteNeedsKnown(from, to) =>
            /\ TreeRoute(from, to).ok
            /\ TreeRoute(from, to).ancestor = CommonAncestor(from, to)
            /\ TreeRoute(from, to).blocks =
                   Descending(FromSide(from, to)) \o Reverse(Descending(ToSide(from, to)))
            /\ TreeRoute(from, to).index = Cardinality(FromSide(from, to))

\* C11 witness: a route between two forks, two blocks down and one up, read by a
\* tree_route call (its details are cached).
C11_Witness ==
    \E from \in AllHashes, to \in AllHashes :
        /\ RouteNeedsKnown(from, to)
        /\ RouteNeeds(from, to) \subseteq DOMAIN block_details
        /\ TreeRoute(from, to).index = 2
        /\ Len(TreeRoute(from, to).blocks) = 3

\* C12: tree_route(from, to) is None, without a panic, whenever the details of `from`,
\* of `to` or of a block between them and their common ancestor are missing.
C12_TreeRouteNone ==
    /\ ~panicked
    /\ \A from \in AllHashes, to \in AllHashes :
           ~RouteNeedsKnown(from, to) =>
               ~TreeRoute(from, to).ok /\ ~TreeRoute(from, to).panic

\* C12 witness: both ends are known and cached by a tree_route call that met a block
\* without details on the way.
C12_Witness ==
    \E from \in AllHashes, to \in AllHashes :
        /\ {from, to} \subseteq DOMAIN block_details
        /\ from # to
        /\ ~RouteNeedsKnown(from, to)
        /\ ~TreeRoute(from, to).ok

\* C13: insert_block of a block that is already among its parent's children returns
\* the empty ImportRoute and adds nothing to the batch, the staged overlays or the
\* stored records; the best block, the caches of hashes, addresses, receipts and
\* blooms and the answer of block_details for every block are as before the call.
C13_KnownChildNoOp ==
    [][(last' # last /\ last'.outcome = "known") =>
           /\ last'.route = ImportRouteNone
           /\ batch' = batch
           /\ pendingvars' = pendingvars
           /\ dbvars' = dbvars
           /\ best_block' = best_block
           /\ UNCHANGED <<block_bodies, block_hashes, transaction_addresses,
                          block_receipts, blocks_blooms>>
           /\ \A h \in AllHashes : BlockDetailsOf(h)' = BlockDetailsOf(h)]_vars

\* C13 witness: a block that is a child of its parent has been inserted again, after
\* a cycle that left the batch empty.
C13_Witness ==
    /\ ~panicked
    /\ last.outcome = "known"
    /\ IsKnownChild(last.block.parent, last.block.hash)
    /\ batch = EmptyBatch

\* C15: the details of every block stored by insert_block, or by
\* insert_unordered_block while its parent's details were known, hold the parent's
\* total difficulty plus the block's own header difficulty; the genesis details hold
\* the genesis difficulty.
C15_TotalDifficultyAccumulates ==
    /\ \A d \in BlockDetailsOf(GenesisHash) : d.total_difficulty = GenesisDifficulty
    /\ \A h \in BlockHashes :
           \A d \in BlockDetailsOf(h) \cup {db_details[k] : k \in {h} \cap DOMAIN db_details} :
               \A pd \in BlockDetailsOf(d.parent) :
                   d.total_difficulty = pd.total_difficulty + made[h].difficulty

\* C15 witness: every block is built and committed, one by insert_unordered_block
\* and one by insert_block on a block other than the genesis, with both header
\* difficulties in use.
C15_Witness ==
    /\ Settled
    /\ last.outcome = "unordered"
    /\ \A h \in AllHashes : BlockDetailsOf(h) # {}
    /\ \E h \in BlockHashes : made[h].parent # GenesisHash /\ made[h].difficulty = MaxDiff
    /\ \E h \in BlockHashes : made[h].difficulty = 1

\* C14: after insert_block has placed a block as Branch and the cycle has completed,
\* the best block, the stored best key, block_hash of every number, the address of
\* every transaction and the bloom index are as before the call; the block's header
\* and body, details and receipts are added and the block is appended to its parent's
\* children, every other details and receipts record being as before.
C14_BranchFrame ==
    (SettledInsert /\ last.location = BranchLoc) =>
        /\ best_block = pre.best
        /\ db_best = {pre.best.hash}
        /\ \A n \in Numbers : BlockHashAt(n) = pre.hashes[n]
        /\ \A t \in Txs : TransactionAddressOf(t) = pre.txs[t]
        /\ \A q \in Blooms : BlocksWithBloom(q, 0, MaxBlocks) = pre.blooms[q]
        /\ BlockBodyOf(last.block.hash) = {last.block.txs}
        /\ BlockReceiptsOf(last.block.hash) = {last.block.receipts}
        /\ BlockDetailsOf(last.block.hash) =
               {[number |-> last.block.number,
                 total_difficulty |-> last.total_difficulty,
                 parent |-> last.block.parent, children |-> <<>>]}
        /\ \A pd \in pre.details[last.block.parent] :
               BlockDetailsOf(last.block.parent) =
                   {[pd EXCEPT !.children = Append(@, last.block.hash)]}
        /\ \A h \in AllHashes \ {last.block.hash, last.block.parent} :
               BlockDetailsOf(h) = pre.details[h]
        /\ \A h \in AllHashes \ {last.block.hash} : BlockReceiptsOf(h) = pre.receipts[h]

\* C14 witness: a block with transactions and a non-zero log bloom has been placed
\* as Branch at a number the canonical chain has reached, and its cycle completed.
C14_Witness ==
    /\ SettledInsert
    /\ last.location = BranchLoc
    /\ last.block.txs # <<>>
    /\ last.block.log_bloom # ZeroBloom
    /\ last.block.number <= best_block.number
    /\ \E q \in Blooms : pre.blooms[q] # <<>>

\* The block of number n on the chain of the best block.
CanonicalAt(n) == {h \in Ancestry(best_block.hash) : made[h].number = n}

\* C16: after insert_block calls, each written and committed, for every bloom q and
\* range [a, b], blocks_with_bloom(q, a, b) contains every n of [a, b] up to the best
\* number whose canonical block's header log bloom is a superset of q.
C16_NoFalseNegatives ==
    SettledInsert =>
        \A q \in Blooms, a \in Numbers, b \in Numbers :
            \A n \in a..b : \A h \in CanonicalAt(n) :
                q \subseteq made[h].log_bloom => Contains(BlocksWithBloom(q, a, b), n)

\* C16 witness: after a completed reorganisation a canonical block that is not the
\* last one inserted has a non-zero log bloom and is found by its bloom.
C16_Witness ==
    /\ SettledInsert
    /\ last.location = BecomingCanonLoc
    /\ \E n \in Numbers : \E h \in CanonicalAt(n) \ {last.block.hash} :
           /\ made[h].log_bloom # ZeroBloom
           /\ Contains(BlocksWithBloom(made[h].log_bloom, 0, MaxBlocks), n)

\* The bloom q matches a block of `hs`.
MatchesIn(q, hs) == \E h \in hs : q \subseteq made[h].log_bloom

\* C17: after a reorganisation has been written and committed, blocks_with_bloom
\* returns no number for a bloom that matches retracted blocks only, and returns the
\* number of every enacted block the bloom matches, over every range that holds it.
C17_BloomsAcrossReorg ==
    (SettledInsert /\ last.location = BecomingCanonLoc) =>
        \A q \in Blooms, a \in Numbers, b \in Numbers :
            /\ (MatchesIn(q, TrueRetracted) /\ ~MatchesIn(q, Ancestry(best_block.hash)))
                   => BlocksWithBloom(q, a, b) = <<>>
            /\ \A h \in TrueEnacted :
                   (q \subseteq made[h].log_bloom /\ made[h].number \in a..b)
                       => Contains(BlocksWithBloom(q, a, b), made[h].number)

\* C17 witness: a completed reorganisation to a shorter chain, where a bloom matches
\* only a retracted block whose number is above the new best number and another
\* bloom matches an enacted block.
C17_Witness ==
    /\ SettledInsert
    /\ last.location = BecomingCanonLoc
    /\ best_block.number < pre.best.number
    /\ \E q \in Blooms, h \in TrueRetracted :
           /\ made[h].number > best_block.number
           /\ q \subseteq made[h].log_bloom
           /\ ~MatchesIn(q, Ancestry(best_block.hash))
    /\ \E h \in TrueEnacted : made[h].log_bloom # ZeroBloom

\* The receipts of block h that are cached or stored.
ReceiptsKept(h) == BlockReceiptsOf(h) \cup {db_receipts[k] : k \in {h} \cap DOMAIN db_receipts}

\* Every block was inserted with one receipt per transaction.
AllVerified == \A h \in DOMAIN made : Len(made[h].receipts) = Len(made[h].txs)

LogAt(n, h, i, j) ==
    [entry |-> made[h].receipts[i][j], block_hash |-> h, block_number |-> n,
     transaction_hash |-> made[h].txs[i], transaction_index |-> i - 1,
     transaction_log_index |-> j - 1,
     log_index |-> SumLogs(SubSeq(made[h].receipts, 1, i - 1)) + j - 1]
LogsIn(n, h) ==
    {LogAt(n, h, p[1], p[2]) :
        p \in {q \in (DOMAIN made[h].receipts) \X (1..(2 * MaxTxs)) :
                  q[2] <= Len(made[h].receipts[q[1]])}}
TrueBlockLogs(n, h) ==
    [k \in 1..SumLogs(made[h].receipts) |->
        CHOOSE e \in LogsIn(n, h) : e.log_index = k - 1]
\* The matching entries of the blocks block_hash names for the numbers, which are
\* given in ascending order.
RECURSIVE TrueLogs(_, _)
TrueLogs(ascending, matches) ==
    IF ascending = <<>> THEN <<>>
    ELSE (IF BlockHashAt(Head(ascending)) = {} THEN <<>>
          ELSE Matching(TrueBlockLogs(Head(ascending),
                                      TheOne(BlockHashAt(Head(ascending)))), matches))
         \o TrueLogs(Tail(ascending), matches)

LogsAreTrue(returned, expected) == ~returned.panic => returned.logs = expected

LastEntries(s, k) == SubSeq(s, Len(s) - Min(k, Len(s)) + 1, Len(s))

\* C20: logs(blocks, matches, Some(k)) returns at most k entries, which are the last
\* min(k, total) entries of logs(blocks, matches, None) in the same ascending order.
LimitKeepsLast(unlimited, limited, k) ==
    ~unlimited.panic =>
        /\ ~limited.panic
        /\ Len(limited.logs) <= k
        /\ limited.logs = LastEntries(unlimited.logs, k)
C20_LimitKeepsLastEntries ==
    Settled =>
        \A blocks \in LogBlockLists, matches \in LogMatchers, k \in 0..MaxLimit :
            LimitKeepsLast(Logs(blocks, matches, {}), Logs(blocks, matches, {k}), k)

\* C20 witness: a limit smaller than the number of matching entries of two blocks
\* cuts inside the lower block, and the entries kept are not the first ones.
C20_Witness ==
    /\ Settled
    /\ \E a \in Numbers, b \in Numbers :
           /\ a < b
           /\ Len(Logs(<<b, a>>, LogIds, {}).logs) > MaxLimit
           /\ Len(Logs(<<b, a>>, LogIds, {MaxLimit}).logs) = MaxLimit
           /\ Logs(<<b, a>>, LogIds, {MaxLimit}).logs[1].block_number = a
           /\ Logs(<<b, a>>, LogIds, {MaxLimit}).logs
                  # SubSeq(Logs(<<b, a>>, LogIds, {}).logs, 1, MaxLimit)

\* The sequence s starts at `first`, each next hash is the parent of the one before,
\* every hash of it has details, and it ends after the block whose parent is the zero
\* hash or has no details.
IsAncestryOf(s, first) ==
    /\ Len(s) >= 1
    /\ s[1] = first
    /\ \A i \in 1..(Len(s) - 1) : s[i + 1] = made[s[i]].parent
    /\ \A i \in 1..Len(s) : BlockDetailsOf(s[i]) # {}
    /\ \/ made[s[Len(s)]].parent = ZeroHash
       \/ BlockDetailsOf(made[s[Len(s)]].parent) = {}

\* C21: ancestry_iter(first) is None when `first` is unknown; otherwise it yields
\* `first`, then each successive parent, and ends after the block whose parent is the
\* zero hash or at the first hash without details; from the best block of a chain
\* whose blocks all have details it yields best.number + 1 hashes, down to genesis.
C21_AncestryIter ==
    /\ \A first \in AllHashes :
           IF BlockDetailsOf(first) = {} THEN AncestryIter(first) = {}
           ELSE /\ AncestryIter(first) # {}
                /\ \A s \in AncestryIter(first) : IsAncestryOf(s, first)
    /\ (\A h \in Ancestry(best_block.hash) : BlockDetailsOf(h) # {}) =>
           \A s \in AncestryIter(best_block.hash) :
               /\ Len(s) = best_block.number + 1
               /\ s[1] = best_block.hash
               /\ s[Len(s)] = GenesisHash

\* C21 witness: an iterator run to its end has yielded two hashes, now cached, and
\* stopped at a block without details.
C21_Witness ==
    \E first \in AllHashes : \E s \in AncestryIter(first) :
        /\ Len(s) = 2
        /\ Range(s) \subseteq DOMAIN block_details
        /\ made[s[2]].parent # ZeroHash
        /\ BlockDetailsOf(made[s[2]].parent) = {}

\* C22: a store opened empty with genesis G has best = G, block_hash(0) = G,
\* block_hash(1) = None and no child of G; after insert_block of A on G, the batch
\* write and commit, best = A, block_hash(1) = A, block_hash(2) = None,
\* details(A).parent = G, details(G).children = [A] and the total difficulty of A is
\* difficulty(G) + difficulty(A).
C22_BasicInsert ==
    /\ (DOMAIN made = {GenesisHash} /\ ~panicked) =>
           /\ best_block = [hash |-> GenesisHash, number |-> 0,
                            total_difficulty |-> GenesisDifficulty]
           /\ BlockHashAt(0) = {GenesisHash}
           /\ BlockHashAt(1) = {}
           /\ BlockDetailsOf(GenesisHash) # {}
           /\ \A d \in BlockDetailsOf(GenesisHash) : d.children = <<>>
    /\ (SettledInsert /\ DOMAIN made = {GenesisHash, last.block.hash}) =>
           /\ best_block = [hash |-> last.block.hash, number |-> 1,
                            total_difficulty |-> GenesisDifficulty + last.block.difficulty]
           /\ BlockHashAt(0) = {GenesisHash}
           /\ BlockHashAt(1) = {last.block.hash}
           /\ BlockHashAt(2) = {}
           /\ BlockDetailsOf(last.block.hash) # {}
           /\ \A d \in BlockDetailsOf(last.block.hash) :
                  /\ d.parent = GenesisHash
                  /\ d.total_difficulty = GenesisDifficulty + last.block.difficulty
           /\ \A d \in BlockDetailsOf(GenesisHash) : d.children = <<last.block.hash>>

\* C22 witness: the first block, of difficulty MaxDiff, has been inserted, written
\* and committed, and the details of the genesis block are read from the store.
C22_Witness ==
    /\ SettledInsert
    /\ DOMAIN made = {GenesisHash, last.block.hash}
    /\ last.block.difficulty = MaxDiff
    /\ GenesisHash \notin DOMAIN block_details
    /\ IsKnownChild(GenesisHash, last.block.hash)

\* C23: once insert_block of a new best block has been followed by commit,
\* block(best_block_hash()) returns the block, also when the batch was never written
\* and the header and body caches do not hold it; between insert_block and commit the
\* best block is still the old one.
C23_BestBlockQueryable ==
    /\ (~panicked /\ last.outcome = "staged" /\ last.location # BranchLoc
           /\ best_block.hash = last.block.hash) =>
           BlockBodyOf(best_block.hash) = {last.block.txs}
    /\ (~panicked /\ last.outcome = "staged" /\ cycle = "staged") =>
           /\ best_block = pre.best
           /\ best_block.hash # last.block.hash

\* C23 witness: the new best block is committed while its batch is unwritten and no
\* cache holds its bytes.
C23_Witness ==
    /\ ~panicked
    /\ last.outcome = "staged"
    /\ best_block.hash = last.block.hash
    /\ best_block.number = pre.best.number + 1
    /\ last.block.hash \notin db_blocks
    /\ last.block.hash \notin block_bodies
    /\ last.block.hash \in batch.blocks

\* C24: after insert_block calls whose batches were written and committed, a new
\* BlockChain opened on the same store finds its best block and reports the hash and
\* number the previous instance reported; a Branch insertion leaves the persisted best
\* block as it was.
C24_DurableBest ==
    /\ last.outcome # "expect_best_block"
    /\ Settled => db_best = {best_block.hash}
    /\ (Settled /\ last.outcome = "reopened") => best_block = pre.best
    /\ (SettledInsert /\ last.location = BranchLoc) => db_best = {pre.best.hash}

\* C24 witness: the store is reopened after a reorganisation and then a Branch
\* insertion, the last block built being off the chain of the best block.
C24_Witness ==
    /\ Settled
    /\ last.outcome = "reopened"
    /\ DOMAIN made = AllHashes
    /\ best_block.hash = GenesisHash + 2
    /\ best_block.number = 1
    /\ made[GenesisHash + MaxBlocks].parent = GenesisHash + 1

\* The chain of MaxBlocks blocks has been imported.
GapChainMade == \A h \in BlockHashes : made[h].parent = h - 1

\* The best block record of block h with the total difficulty of its true ancestry.
TrueBest(h) ==
    [hash |-> h, number |-> made[h].number, total_difficulty |-> TrueTotalDifficulty(h)]

\* C25: once insert_unordered_block of an unknown block has been written and
\* committed, the block is placed as CanonChain whatever its total difficulty:
\* block_hash(number) is its hash, its details, the addresses of its transactions and
\* its log bloom are recorded, and the best block is this block if and only if is_best
\* was passed (it is the previous best block otherwise).  When the blocks of a chain
\* are imported with block 1 last and not as best, the last block of the chain being
\* the best block by then, the best block, block_hash of every number and the result of
\* every non-zero bloom query are those of the chain.
C25_UnorderedPlacement ==
    /\ (Settled /\ last.outcome \in {"unordered", "disconnected"}) =>
           /\ last.location = CanonChainLoc
           /\ BlockHashAt(last.block.number) = {last.block.hash}
           /\ BlockDetailsOf(last.block.hash) =
                  {[number |-> last.block.number, parent |-> last.block.parent,
                    total_difficulty |-> last.total_difficulty, children |-> <<>>]}
           /\ \A i \in DOMAIN last.block.txs :
                  TransactionAddressOf(last.block.txs[i]) =
                      {[block_hash |-> last.block.hash, index |-> i - 1]}
           /\ \A q \in Blooms \ {ZeroBloom} :
                  q \subseteq last.block.log_bloom =>
                      BlocksWithBloom(q, last.block.number, last.block.number)
                          = <<last.block.number>>
           /\ (best_block.hash = last.block.hash) <=> last.is_best
           /\ last.is_best =>
                  best_block = [hash |-> last.block.hash, number |-> last.block.number,
                                total_difficulty |-> last.total_difficulty]
           /\ ~last.is_best => best_block = pre.best
    /\ (Settled /\ last.outcome = "unordered" /\ GapChainMade
           /\ last.block.hash = GenesisHash + 1 /\ ~last.is_best
           /\ pre.best = TrueBest(GenesisHash + MaxBlocks)
           /\ \A n \in 2..MaxBlocks : pre.hashes[n] = {GenesisHash + n}) =>
           /\ best_block = TrueBest(GenesisHash + MaxBlocks)
           /\ \A n \in Numbers : BlockHashAt(n) = {GenesisHash + n}
           /\ \A q \in Blooms \ {ZeroBloom}, a \in Numbers, b \in Numbers :
                  BlocksWithBloom(q, a, b) =
                      Ascending({n \in a..b : n > 0 /\ q \subseteq made[GenesisHash + n].log_bloom})

\* C25 witness: block 2 was imported with its parent's total difficulty, block 3 on
\* it as the best block, and block 1 last, not as best and below the total difficulty
\* of the best block.
C25_Witness ==
    /\ Settled
    /\ last.outcome = "unordered"
    /\ GapChainMade
    /\ last.block.hash = GenesisHash + 1
    /\ ~last.is_best
    /\ best_block.hash = GenesisHash + MaxBlocks
    /\ last.total_difficulty < best_block.total_difficulty
    /\ DOMAIN db_details = AllHashes
    /\ db_details[GenesisHash + 2].children = <<GenesisHash + 3>>
    /\ db_details[GenesisHash + 1].children = <<>>

\* insert_unordered_block has just staged an unknown block.
UnorderedStaged ==
    ~panicked /\ cycle = "staged" /\ last.outcome \in {"unordered", "disconnected"}

\* block_hash(n + 1) as it was when the last call was made.
HashAfterLast ==
    IF last.block.number + 1 \in DOMAIN pre.hashes THEN pre.hashes[last.block.number + 1]
    ELSE {}

\* The "ancient" key and best_ancient_block after the last call, as the three cases
\* describe them: cleared, advanced to the block, or left alone.
AncientCleared == batch_extra.ancient = {{}} /\ best_ancient_block = {}
AncientAdvanced ==
    /\ batch_extra.ancient = {{last.block.hash}}
    /\ best_ancient_block = {[hash |-> last.block.hash, number |-> last.block.number]}
AncientKept == batch_extra.ancient = {} /\ best_ancient_block = pre.ancient

AncientHandled ==
    IF ~last.is_ancient THEN AncientKept
    ELSE IF HashAfterLast # {} THEN AncientCleared
    ELSE IF last.block.number > AncientNumber(pre.ancient) THEN AncientAdvanced
    ELSE AncientKept

CaughtUpAndReopened ==
    /\ Settled
    /\ last.outcome = "reopened"
    /\ GapChainMade
    /\ DOMAIN db_details = AllHashes
    /\ db_details[GenesisHash + 1].children = <<>>
    /\ db_details[GenesisHash + 2].children = <<>>
    /\ best_block.hash = GenesisHash + MaxBlocks

\* C27 as stated: after the unordered catch-up of blocks 2 and 1 below the best block 3
\* and a restart, first_block is block 1 and best_ancient_block is None.
C27_CatchUpFirstBlock ==
    CaughtUpAndReopened => first_block = {GenesisHash + 1} /\ best_ancient_block = {}

\* C27 witness: the catch-up is complete and the store reopened, and first_block is
\* still block 3, which an earlier start had found above the gap and persisted.
C27_Witness ==
    /\ CaughtUpAndReopened
    /\ first_block = {GenesisHash + MaxBlocks}
    /\ db_first = {GenesisHash + MaxBlocks}
    /\ best_ancient_block = {}

\* The bounds of the search of a start that has just completed: the best-ancient
\* number, or 0, and the best number.
SearchLow == AncientNumber(best_ancient_block)
SearchHigh == best_block.number

\* A start has just completed on a store that held no "first" key.
ReopenedWithoutFirst == Settled /\ last.outcome = "reopened" /\ pre.first = {}

\* The gap: the numbers above the lower bound, up to the best number, without a hash.
Gap(l, f) == {n \in (l + 1)..f : n \notin DOMAIN db_hashes}

\* Above the lower bound the numbers of the gap come first and those with a hash
\* after them, up to the best number, whose hash is the best block's.
GapThenBlocks(l, f) ==
    /\ l <= f
    /\ f \in DOMAIN db_hashes
    /\ db_hashes[f] = best_block.hash
    /\ \A n \in Gap(l, f), m \in (l + 1)..f : m < n => m \in Gap(l, f)

\* The numbers the search can end on: those above the gap, and the lower bound itself
\* when there is no gap.
Available(l, f) ==
    {n \in l..f : n \in DOMAIN db_hashes /\ (Gap(l, f) # {} => n > l)}

\* The hash of the lowest of them.
LowestHash(l, f) ==
    db_hashes[CHOOSE k \in Available(l, f) : \A n \in Available(l, f) : k <= n]

\* C28: the first_block of an instance is the persisted "first" key; when a start finds
\* no "first" key and, between the best-ancient number (or 0) and the best number, the
\* numbers without a hash are all below the numbers with one, the search ends on the
\* hash of the lowest number above the gap that has one (of the lower bound when there
\* is no gap): it is persisted and becomes first_block, unless it is the genesis hash,
\* and then nothing is persisted and first_block is None.
C28_FirstBlockSearch ==
    /\ first_block = db_first
    /\ (ReopenedWithoutFirst /\ GapThenBlocks(SearchLow, SearchHigh)) =>
           first_block = {LowestHash(SearchLow, SearchHigh)} \ {GenesisHash}

\* C28 witness: a start finds no "first" key, block 1 missing and blocks 2 and 3
\* present, and takes block 2 as the first block.
C28_Witness ==
    /\ ReopenedWithoutFirst
    /\ GapChainMade
    /\ best_block.hash = GenesisHash + MaxBlocks
    /\ DOMAIN db_hashes = {0, 2, 3}
    /\ first_block = {GenesisHash + 2}
    /\ db_first = {GenesisHash + 2}

\* The block hashes of the candidates stored for an epoch.
StoredHashes(e) ==
    {StoredCandidates(e)[i].block_hash : i \in DOMAIN StoredCandidates(e)}

\* C29 as stated: once every batch that insert_epoch_transition has staged into is
\* written, the record stored for an epoch holds exactly one candidate for each
\* block hash passed for that epoch, also when several calls were staged into one
\* batch.
C29_OneCandidatePerHash ==
    (~panicked /\ batch_extra.epochs = EmptyMap) =>
        \A e \in Epochs :
            /\ StoredHashes(e) = PassedFor(passed, e)
            /\ Len(StoredCandidates(e)) = Cardinality(PassedFor(passed, e))

\* The candidate is on the canonical chain, below the first block, or the candidate of
\* a side-branch block: another block holds its number.
OnCanonChain(c) == BlockHashAt(c.block_number) = {c.block_hash}
BelowFirstBlock(c) == \E h \in first_block : made[h].number > c.block_number
OfSideBranch(c) == BlockHashAt(c.block_number) \notin {{}, {c.block_hash}}

\* The positions of the candidates of record e that may be yielded.
Eligible(e) ==
    {i \in DOMAIN db_epochs[e] :
        OnCanonChain(db_epochs[e][i]) \/ BelowFirstBlock(db_epochs[e][i])}

\* The pairs epoch_transitions() yields for record e.
YieldedFor(e) == {i \in DOMAIN EpochTransitions : EpochTransitions[i][1] = e}

StoredFor(block_hash) ==
    UNION {FindCandidate(db_epochs[e], block_hash) : e \in DOMAIN db_epochs}

\* C31 as stated: epoch_transition(block_num, block_hash) returns the transition stored
\* with that block number and block hash, whatever epoch number it was stored under,
\* and None when no transition with that block hash was stored.
C31_FoundWhateverEpoch ==
    \A hash \in AllHashes, block_num \in Numbers :
        EpochTransition(block_num, hash) =
            {c \in StoredFor(hash) : c.block_number = block_num}

\* C31 witness: a transition stored under an epoch number other than its block number
\* is not returned for its block number and hash.
C31_Witness ==
    /\ Settled
    /\ \E hash \in EpochBlocks :
         /\ StoredFor(hash) = {EpochCandidate(hash)}
         /\ EpochTransition(made[hash].number, hash) = {}
         /\ EpochTransition(0, hash) = {EpochCandidate(hash)}

\* The stored transitions of canonical blocks up to a number, and those among them of
\* the greatest block number.
CanonicalUpTo(number) ==
    {c \in UNION {StoredFor(h) : h \in AllHashes} :
        c.block_number <= number /\ BlockHashAt(c.block_number) = {c.block_hash}}
GreatestUpTo(number) ==
    {c \in CanonicalUpTo(number) :
        \A d \in CanonicalUpTo(number) : d.block_number <= c.block_number}

\* The result the statement describes for the hashes of an ancestry: the stored
\* transition of the first block that has one, or the greatest canonical transition up
\* to the number of the first canonical block, whichever block comes first.
RECURSIVE TransitionOfAncestry(_)
TransitionOfAncestry(hashes) ==
    IF hashes = <<>> THEN {}
    ELSE IF StoredFor(Head(hashes)) # {} THEN StoredFor(Head(hashes))
    ELSE IF BlockHashAt(made[Head(hashes)].number) = {Head(hashes)}
    THEN GreatestUpTo(made[Head(hashes)].number)
    ELSE TransitionOfAncestry(Tail(hashes))

\* C32 as stated: for a known parent hash, epoch_transition_for returns the stored
\* transition of the first block of the ancestry that has one of its own, or, on
\* reaching a canonical block at number n first, the canonical transition with the
\* greatest block number up to n.
C32_TransitionOfAncestry ==
    ~panicked =>
        \A parent_hash \in AllHashes :
            AncestryIter(parent_hash) # {} =>
                EpochTransitionFor(parent_hash) =
                    TransitionOfAncestry(TheOne(AncestryIter(parent_hash)))

\* C32 witness: a known block has a transition of its own, stored under an epoch number
\* other than its block number, and maps to another transition or to none.
C32_Witness ==
    /\ Settled
    /\ \E hash \in EpochBlocks :
         /\ AncestryIter(hash) # {}
         /\ StoredFor(hash) = {EpochCandidate(hash)}
         /\ EpochTransitionFor(hash) # {EpochCandidate(hash)}

\* C33: under journaling nothing is removed: a key that was inserted and committed
\* with commit_batch is contained after any later removals, insertions and commits,
\* at any era, and after reopening an ArchiveDB on the same backing store.
C33_NeverRemoved ==
    ~jdb_panicked => \A key \in journaled : ArchiveContains(key)

\* C33 witness: a key committed, then removed with the removal committed at a later
\* era, is contained by an ArchiveDB reopened on the store, whose overlay is empty.
C33_Witness ==
    /\ ~jdb_panicked
    /\ overlay = EmptyMap
    /\ latest_era = {MaxEra}
    /\ \E key \in journaled \cap purged :
         /\ ArchiveContains(key)
         /\ journaled = {key}

\* Nothing is staged in the pending overlays.
NothingStaged ==
    /\ pending_best_block = {}
    /\ pending_block_hashes = EmptyMap
    /\ pending_block_details = EmptyMap
    /\ pending_transaction_addresses = EmptyMap

\* C34: commit leaves pending_best_block None and the three pending maps empty, the
\* live best block is the staged one if one was staged, and a commit with nothing
\* staged changes no live state.
C34_CommitMovesStaged ==
    [][Commit =>
          /\ NothingStaged'
          /\ pending_best_block # {} => best_block' = TheOne(pending_best_block)
          /\ NothingStaged => UNCHANGED <<best_block, cachevars, dbvars, markvars>>]_vars

\* C34 witness: a commit has moved a staged best block into the live view and left
\* the staging area empty.
C34_Witness ==
    /\ SettledInsert
    /\ NothingStaged
    /\ last.location # BranchLoc
    /\ pre.best.hash # last.block.hash
    /\ best_block.hash = last.block.hash
    /\ last.block.hash \in DOMAIN block_details

\* The positions of a hash in a list of children.
ChildPositions(children, hash) == {i \in DOMAIN children : children[i] = hash}

\* C35: after insert_block calls each written and committed, every entry of the
\* children of a stored block P is a block whose parent is P, and every inserted
\* block appears exactly once among the children of its parent.
C35_ChildrenOfParent ==
    Settled =>
        /\ \A P \in AllHashes : \A d \in BlockDetailsOf(P) :
               \A i \in DOMAIN d.children : made[d.children[i]].parent = P
        /\ \A B \in BlockHashes : BlockDetailsOf(B) # {} =>
               \E d \in BlockDetailsOf(made[B].parent) :
                   Cardinality(ChildPositions(d.children, B)) = 1

\* C35 witness: the genesis block has two committed children, one of them inserted
\* again since, and one of those has a child itself.
C35_Witness ==
    /\ Settled
    /\ last.outcome = "known"
    /\ \E d \in BlockDetailsOf(GenesisHash) : Len(d.children) = 2
    /\ \E B \in BlockHashes : \E d \in BlockDetailsOf(B) : Len(d.children) = 1

\* C37 as stated: collect_garbage, at any point, changes neither the store, the best
\* block nor the pending overlays, and every query returns after it what it returned
\* before it.
C37_EvictionUnobservable ==
    [][CollectGarbage =>
          /\ UNCHANGED <<dbvars, best_block, pendingvars>>
          /\ LiveView' = LiveView]_vars

\* C37 witness: between the write of the batch and commit an eviction has emptied the
\* details cache, and block_details of the parent returns the new child, which it did
\* not return before the eviction.
C37_Witness ==
    /\ ~panicked
    /\ cycle = "written"
    /\ steps = 1
    /\ block_details = EmptyMap
    /\ last.outcome = "staged"
    /\ last.block.parent \in DOMAIN pending_block_details
    /\ BlockDetailsOf(last.block.parent) = {pending_block_details[last.block.parent]}
    /\ BlockDetailsOf(last.block.parent) # pre.details[last.block.parent]

\* Every entry of a live cache equals the stored record of its key.
Coherent(cache, db) == \A k \in DOMAIN cache : k \in DOMAIN db /\ cache[k] = db[k]

\* C36 as stated: once the insertion cycle and every read in flight have completed,
\* every entry of the live block_details, block_hashes and transaction_addresses
\* caches equals the stored record of its key.
C36_CachesCoherent ==
    (Settled /\ reading = {}) =>
        /\ Coherent(block_details, db_details)
        /\ Coherent(block_hashes, db_hashes)
        /\ Coherent(transaction_addresses, db_txs)

\* C36 witness: a read-through that loaded the parent's details before the insertion
\* has completed after the commit, and the cache holds the record it loaded, without
\* the child the store has.
C36_Witness ==
    /\ SettledInsert
    /\ reading = {}
    /\ last.block.parent \in DOMAIN block_details
    /\ block_details[last.block.parent] = TheOne(pre.details[last.block.parent])
    /\ Contains(db_details[last.block.parent].children, last.block.hash)
    /\ ~Contains(block_details[last.block.parent].children, last.block.hash)

\* The place of a lock in the declared order.
Listed(lock) == \E i \in DOMAIN LockOrder : LockOrder[i] = lock
Rank(lock) == CHOOSE i \in DOMAIN LockOrder : LockOrder[i] = lock

\* The locks a thread holds, and the lock it is about to take.
HeldLocks(t) == {held[t][i].lock : i \in DOMAIN held[t]}
Wanted(t) == IF Waiting(t) THEN {StepOf(t).lock} ELSE {}

\* C38: no operation takes a lock that precedes, in the order best_block,
\* best_ancient_block, block_headers, block_bodies, block_details, block_hashes,
\* transaction_addresses, blocks_blooms, block_receipts, cache_manager, a lock it is
\* still holding.
C38_LockOrderKept ==
    \A t \in Threads : \A wanted \in Wanted(t), holding \in HeldLocks(t) :
        (Listed(wanted) /\ Listed(holding)) => Rank(holding) < Rank(wanted)

\* C38 witness: chain_info holds best_block and best_ancient_block and is about to
\* take the cache manager on top, while collect_garbage holds the seven caches.
C38_Witness ==
    /\ op["info"] = "chain_info"
    /\ Len(held["info"]) = 2
    /\ Wanted("info") = {"cache_manager"}
    /\ op["collector"] = "collect_garbage"
    /\ Len(held["collector"]) = 7
    /\ held["collector"][7].mode = "write"

\* C39 as stated: whenever an operation holds a pending overlay's lock and the lock of
\* its live counterpart, it has taken the live one first: it never takes the live
\* lock while it holds the pending one.
C39_PendingAfterLive ==
    \A t \in Threads : \A wanted \in Wanted(t), holding \in HeldLocks(t) :
        holding \in DOMAIN LiveOf => wanted # LiveOf[holding]

\* C39 witness: commit holds the four pending overlays and, taken after them, the
\* four live locks.
C39_Witness ==
    /\ op["writer"] = "commit"
    /\ Len(held["writer"]) = 8
    /\ held["writer"][1].lock = "pending_best_block"
    /\ held["writer"][5].lock = "best_block"
    /\ held["writer"][8].lock = "transaction_addresses"

\* A set of threads each waiting for a lock that a thread of the set holds.
WaitCycle(S) == S # {} /\ \A t \in S : Blockers(t) \cap S # {}

====
